---- MODULE Spec2Model ----
(***************************************************************************)
(* GeminiCPU (src/main.py): an 8-bit virtual CPU stepping over a flat      *)
(* memory, with the monitor's poke and the loader as its external calls.   *)
(* Python semantics kept: list indexing raises IndexError outside           *)
(* [-len, len), integers are unbounded, & 0xFF is the remainder mod 256.    *)
(***************************************************************************)
EXTENDS Integers, Sequences, FiniteSets, TLC

VARIABLES
    memory,      \* self.memory: list of mem_size ints
    reg,         \* self.reg: A, B, C, D, PC, SP
    zero_flag,   \* self.zero_flag
    carry_flag,  \* self.carry_flag
    running,     \* self.running
    last_input,  \* self.last_input
    cycles,      \* self.cycles
    raised,      \* history: the last call ended in an IndexError
    op,          \* history: the last call ("init", a step's arm, "poke", ...)
    fetches,     \* history: number of step() calls that found PC in range
    frames,      \* history: the CALLs not yet returned from, innermost last
    matched,     \* history: the frame the last RET returned from (or NoFrame)
    pokes,       \* history: number of pokes made
    loads,       \* history: number of load_program calls made
    injects,     \* history: number of input injections made
    stk,         \* history of the _push/_pop round trip
    arg,         \* history: the arguments of the call, if the last call was external
    injected,    \* history: the bytes injected since the last INP, oldest first
    inps,        \* history: number of INP steps since the last injection
    game,        \* the Game object on this engine (NoGame before one is made)
    calls,       \* history: number of calls made on the game, its constructor included
    scores,      \* HighScoreManager.scores: game name -> best score
    hs,          \* history: the last update_high_score call and all submissions
    run          \* the monitor's RUN command: in its loop or not, and `steps`

cpuVars == <<memory, reg, zero_flag, carry_flag, running, last_input, cycles>>
vars == <<memory, reg, zero_flag, carry_flag, running, last_input, cycles,
          raised, op, fetches, frames, matched, pokes, loads, injects, stk,
          arg, injected, inps, game, calls, scores, hs, run>>

----------------------------------------------------------------------------
(* Opcode (IntEnum) *)
NOP == 0
LDA_IMM == 1
STA_ABS == 2
ADD == 3
LDB_IMM == 4
CMP == 5
JMP == 6
JZ == 7
INP == 8
SUB == 9
LDC_IMM == 10
LDD_IMM == 11
INC == 12
DEC == 13
JNZ == 14
LDA_ABS == 16
LDA_IDX == 17
STA_IDX == 18
CALL == 19
RET == 20
MOV_BA == 22
MOV_AB == 23
MOV_CA == 24
MOV_AC == 25
MOV_DA == 26
MOV_AD == 27
AND == 32
OR == 33
HALT == 255

DefinedWithFifteen ==
    {NOP, LDA_IMM, STA_ABS, ADD, LDB_IMM, CMP, JMP, JZ, INP, SUB, LDC_IMM,
     LDD_IMM, INC, DEC, JNZ, 15, LDA_ABS, LDA_IDX, STA_IDX, CALL, RET, MOV_BA,
     MOV_AB, MOV_CA, MOV_AC, MOV_DA, MOV_AD, AND, OR, HALT}

Defined == {NOP, LDA_IMM, STA_ABS, ADD, LDB_IMM, CMP, JMP, JZ, INP, SUB,
            LDC_IMM, LDD_IMM, INC, DEC, JNZ, LDA_ABS, LDA_IDX, STA_IDX, CALL,
            RET, MOV_BA, MOV_AB, MOV_CA, MOV_AC, MOV_DA, MOV_AD, AND, OR, HALT}

(* GeminiCPU class constants and the GameConfig the program constructs it with *)
SCORE_ADDR == 256
HIGH_SCORE_ADDR == 257
VRAM_START == 512
STACK_TOP == 255
FB_WIDTH == 16
FB_HEIGHT == 16
VRAM_SIZE == FB_WIDTH * FB_HEIGHT

MemSizeNoTail(width, height) == VRAM_START + width * height

\* mem_size = VRAM_START + framebuffer_width * framebuffer_height + 256
MemSize(width, height) == VRAM_START + width * height + 256
MemLen == MemSize(FB_WIDTH, FB_HEIGHT)

----------------------------------------------------------------------------
(* Bounds of the model *)
MaxCycles == 5
MaxPokes == 1
MaxInjects == 1
MaxInputInjects == 2
MaxGameCalls == 5
MaxRuns == 1
MaxCommands == 2

----------------------------------------------------------------------------
(* Python integer and list primitives *)
Mask8(x) == x % 256

RECURSIVE BitAnd(_, _)
BitAnd(x, y) ==
    IF x = 0 \/ y = 0 THEN 0
    ELSE (x % 2) * (y % 2) + 2 * BitAnd(x \div 2, y \div 2)

RECURSIVE BitOr(_, _)
BitOr(x, y) ==
    IF x = 0 THEN y
    ELSE IF y = 0 THEN x
    ELSE (IF x % 2 = 1 \/ y % 2 = 1 THEN 1 ELSE 0) + 2 * BitOr(x \div 2, y \div 2)

\* self.memory is a list of MemLen cells, created all 0. It is kept here as the
\* finite map of its non-zero cells: Cell reads cell a (0 <= a < MemLen), Store
\* writes it, and two memories are equal exactly when all MemLen cells agree.
Cell(m, a) == IF a \in DOMAIN m THEN m[a] ELSE 0
Store(m, a, v) ==
    IF v = 0
      THEN [x \in DOMAIN m \ {a} |-> m[x]]
      ELSE [x \in DOMAIN m \cup {a} |-> IF x = a THEN v ELSE m[x]]

\* m[i] of a Python list of length MemLen: defined for -MemLen <= i < MemLen
Valid(i) == i >= -MemLen /\ i < MemLen
At(m, i) == Cell(m, IF i < 0 THEN i + MemLen ELSE i)

----------------------------------------------------------------------------
(* Addressing and stack helpers *)

\* _read_address: both operand cells must be indexable
ReadAddressOk(a) == Valid(a) /\ Valid(a + 1)
ReadAddress(m, a) == BitOr(At(m, a), At(m, a + 1) * 256)

PushUnmasked(m, sp, value) ==
    LET m1 == Store(m, sp, Mask8(value))
        m2 == Store(m1, sp - 1, Mask8(value \div 256))
    IN  [memory |-> m2, SP |-> sp - 2]

PushPageOne(m, sp, value) ==
    LET m1 == Store(m, 256 + sp, Mask8(value))
        sp1 == Mask8(sp - 1)
        m2 == Store(m1, 256 + sp1, Mask8(value \div 256))
    IN  [memory |-> m2, SP |-> Mask8(sp1 - 1)]

PushHighFirst(m, sp, value) ==
    LET m1 == Store(m, sp, Mask8(value \div 256))
        sp1 == Mask8(sp - 1)
        m2 == Store(m1, sp1, Mask8(value))
    IN  [memory |-> m2, SP |-> Mask8(sp1 - 1)]

\* _push: low byte at SP, SP-1, high byte at the new SP, SP-1
Push(m, sp, value) ==
    LET m1 == Store(m, sp, Mask8(value))
        sp1 == Mask8(sp - 1)
        m2 == Store(m1, sp1, Mask8(value \div 256))
    IN  [memory |-> m2, SP |-> Mask8(sp1 - 1)]

\* _pop: SP+1, high byte, SP+1, low byte
Pop(m, sp) ==
    LET sp1 == Mask8(sp + 1)
        high == Cell(m, sp1)
        sp2 == Mask8(sp1 + 1)
        low == Cell(m, sp2)
    IN  [value |-> BitOr(high * 256, low), SP |-> sp2]

----------------------------------------------------------------------------
(* History of CALL/RET: one frame per CALL not yet returned from *)
NoFrame == [ret |-> -1, sp |-> -1, ok |-> FALSE]

\* a frame stays ok while its two stack cells keep the bytes CALL wrote
Tainted(m2) ==
    [i \in DOMAIN frames |->
        [frames[i] EXCEPT !.ok = @ /\ Cell(m2, frames[i].sp)
                                        = Cell(memory, frames[i].sp)
                                   /\ Cell(m2, Mask8(frames[i].sp - 1))
                                        = Cell(memory, Mask8(frames[i].sp - 1))]]

\* no Game constructed, an empty scores dict, no update_high_score call yet
NoGame == [name |-> "none"]
NoScores == [n \in {} |-> 0]
NoSubmission == [name |-> "none", score |-> 0, returned |-> FALSE,
                 submitted |-> [n \in {} |-> {}]]

\* RUN's loop: `steps` counts the step() calls that returned; a call that
\* raises leaves the loop (and the shell) at once
NoRun == [active |-> FALSE, steps |-> 0, runs |-> 0, left |-> 0, cmds |-> 0]

\* a command of the monitor is in its loop: RUN's while, or STEP's for with
\* `left` iterations to go
InCommand == run.active \/ run.left > 0

\* the steps explored: MaxCycles direct step() calls, the steps of a monitor
\* command (bounded by the command), and the steps of an engine whose memory
\* is all zero (NOP up to the end of memory)
WithinBound == cycles < MaxCycles \/ InCommand \/ DOMAIN memory = {}

Looped(exc) ==
    IF run.active
      THEN [run EXCEPT !.active = ~exc,
                       !.steps = IF exc THEN @ ELSE @ + 1]
      ELSE IF run.left > 0
        THEN [run EXCEPT !.left = IF exc THEN 0 ELSE @ - 1]
        ELSE run

\* the arguments of an external call: load_program(program, addr),
\* write_memory(addr, value), an injection of value
NoArg == [program |-> <<>>, addr |-> 0, value |-> 0]

Hist(name, exc, fr, mt) ==
    /\ op' = name
    /\ raised' = exc
    /\ fetches' = fetches + 1
    /\ frames' = fr
    /\ matched' = mt
    /\ injected' = IF name = "INP" THEN <<>> ELSE injected
    /\ inps' = IF name = "INP" THEN inps + 1 ELSE inps
    /\ arg' = NoArg
    /\ run' = Looped(exc)
    /\ UNCHANGED <<game, calls, scores, hs>>
    /\ UNCHANGED <<pokes, loads, injects, stk>>

----------------------------------------------------------------------------
(* step(): the fetch, then one arm per opcode *)

InRangeHaltUncounted ==
    /\ WithinBound
    /\ reg.PC < MemLen
    /\ Valid(reg.PC)
    /\ cycles' = IF At(memory, reg.PC) = HALT THEN cycles ELSE cycles + 1

FetchScoreAsNop(code) ==
    /\ WithinBound
    /\ reg.PC < MemLen
    /\ Valid(reg.PC)
    /\ cycles' = cycles + 1
    /\ IF reg.PC \in {SCORE_ADDR, HIGH_SCORE_ADDR}
         THEN code = NOP
         ELSE At(memory, reg.PC) = code

\* pc < len(memory); opcode = memory[pc]; cycles += 1
InRange ==
    /\ WithinBound
    /\ reg.PC < MemLen
    /\ Valid(reg.PC)
    /\ cycles' = cycles + 1

Fetch(code) ==
    /\ InRange
    /\ At(memory, reg.PC) = code

StepStopCounted ==
    /\ reg.PC >= MemLen
    /\ WithinBound
    /\ running' = FALSE
    /\ cycles' = cycles + 1
    /\ op' = "STOP"
    /\ raised' = FALSE
    /\ matched' = NoFrame
    /\ arg' = NoArg
    /\ run' = Looped(raised')
    /\ UNCHANGED <<game, calls, scores, hs>>
    /\ UNCHANGED <<memory, reg, zero_flag, carry_flag, last_input,
                   fetches, frames, pokes, loads, injects, stk, injected, inps>>

StepStopUnguarded ==
    /\ reg.PC >= MemLen
    /\ op' = "STOP"
    /\ raised' = TRUE
    /\ matched' = NoFrame
    /\ arg' = NoArg
    /\ run' = Looped(raised')
    /\ UNCHANGED <<game, calls, scores, hs>>
    /\ UNCHANGED <<memory, reg, zero_flag, carry_flag, running, last_input,
                   cycles, fetches, frames, pokes, loads, injects, stk, injected,
                   inps>>

\* pc >= len(memory): running = False, return
StepStop ==
    /\ reg.PC >= MemLen
    /\ running' = FALSE
    /\ op' = "STOP"
    /\ raised' = FALSE
    /\ matched' = NoFrame
    /\ arg' = NoArg
    /\ run' = Looped(FALSE)
    /\ UNCHANGED <<game, calls, scores, hs>>
    /\ UNCHANGED <<memory, reg, zero_flag, carry_flag, last_input, cycles,
                   fetches, frames, pokes, loads, injects, stk, injected, inps>>

StepNOPSkipsOperand ==
    /\ Fetch(NOP)
    /\ reg' = [reg EXCEPT !.PC = @ + 2]
    /\ Hist("NOP", FALSE, frames, NoFrame)
    /\ UNCHANGED <<memory, zero_flag, carry_flag, running, last_input>>

StepNOP ==
    /\ Fetch(NOP)
    /\ reg' = [reg EXCEPT !.PC = @ + 1]
    /\ Hist("NOP", FALSE, frames, NoFrame)
    /\ UNCHANGED <<memory, zero_flag, carry_flag, running, last_input>>

\* the four immediate loads: reg[r] = memory[pc + 1]; PC += 2
LoadImm(name, r) ==
    /\ reg' = IF Valid(reg.PC + 1)
                THEN [reg EXCEPT ![r] = At(memory, reg.PC + 1), !.PC = @ + 2]
                ELSE reg
    /\ Hist(name, ~Valid(reg.PC + 1), frames, NoFrame)
    /\ UNCHANGED <<memory, zero_flag, carry_flag, running, last_input>>

StepLDA_IMM ==
    /\ Fetch(LDA_IMM)
    /\ LoadImm("LDA_IMM", "A")
StepLDB_IMM ==
    /\ Fetch(LDB_IMM)
    /\ LoadImm("LDB_IMM", "B")
StepLDC_IMM ==
    /\ Fetch(LDC_IMM)
    /\ LoadImm("LDC_IMM", "C")
StepLDD_IMM ==
    /\ Fetch(LDD_IMM)
    /\ LoadImm("LDD_IMM", "D")

StepSTA_ABS ==
    /\ Fetch(STA_ABS)
    /\ IF ReadAddressOk(reg.PC + 1)
         THEN LET addr == ReadAddress(memory, reg.PC + 1) IN
              /\ memory' = IF addr < MemLen
                             THEN Store(memory, addr, reg.A)
                             ELSE memory
              /\ reg' = [reg EXCEPT !.PC = @ + 3]
              /\ Hist("STA_ABS", FALSE, Tainted(memory'), NoFrame)
         ELSE /\ UNCHANGED <<memory, reg>>
              /\ Hist("STA_ABS", TRUE, frames, NoFrame)
    /\ UNCHANGED <<zero_flag, carry_flag, running, last_input>>

AddResult(a, b) == a + b
AddCarryOffByOne(result) == result >= 255
AddCarry(result) == result > 255

StepADD ==
    /\ Fetch(ADD)
    /\ LET result == AddResult(reg.A, reg.B) IN
         /\ carry_flag' = AddCarry(result)
         /\ reg' = [reg EXCEPT !.A = Mask8(result), !.PC = @ + 1]
         /\ zero_flag' = (Mask8(result) = 0)
    /\ Hist("ADD", FALSE, frames, NoFrame)
    /\ UNCHANGED <<memory, running, last_input>>

StepCMPSubtracts ==
    /\ Fetch(CMP)
    /\ zero_flag' = (reg.A = reg.B)
    /\ carry_flag' = (reg.A < reg.B)
    /\ reg' = [reg EXCEPT !.PC = @ + 1]
    /\ Hist("CMP", FALSE, frames, NoFrame)
    /\ UNCHANGED <<memory, running, last_input>>

StepCMP ==
    /\ Fetch(CMP)
    /\ zero_flag' = (reg.A = reg.B)
    /\ reg' = [reg EXCEPT !.PC = @ + 1]
    /\ Hist("CMP", FALSE, frames, NoFrame)
    /\ UNCHANGED <<memory, carry_flag, running, last_input>>

\* JMP, taken JZ, taken JNZ: PC = _read_address(pc + 1)
Jump(name) ==
    /\ reg' = IF ReadAddressOk(reg.PC + 1)
                THEN [reg EXCEPT !.PC = ReadAddress(memory, reg.PC + 1)]
                ELSE reg
    /\ Hist(name, ~ReadAddressOk(reg.PC + 1), frames, NoFrame)

StepJMPResumes ==
    /\ Fetch(JMP)
    /\ Jump("JMP")
    /\ running' = ReadAddressOk(reg.PC + 1)
    /\ UNCHANGED <<memory, zero_flag, carry_flag, last_input>>

StepJMP ==
    /\ Fetch(JMP)
    /\ Jump("JMP")
    /\ UNCHANGED <<memory, zero_flag, carry_flag, running, last_input>>

StepJZ ==
    /\ Fetch(JZ)
    /\ IF zero_flag
         THEN Jump("JZ")
         ELSE /\ reg' = [reg EXCEPT !.PC = @ + 3]
              /\ Hist("JZ", FALSE, frames, NoFrame)
    /\ UNCHANGED <<memory, zero_flag, carry_flag, running, last_input>>

StepJNZ ==
    /\ Fetch(JNZ)
    /\ IF ~zero_flag
         THEN Jump("JNZ")
         ELSE /\ reg' = [reg EXCEPT !.PC = @ + 3]
              /\ Hist("JNZ", FALSE, frames, NoFrame)
    /\ UNCHANGED <<memory, zero_flag, carry_flag, running, last_input>>

StepINPKeepsInput ==
    /\ Fetch(INP)
    /\ reg' = [reg EXCEPT !.A = IF last_input # 0 THEN last_input ELSE 0,
                          !.PC = @ + 1]
    /\ Hist("INP", FALSE, frames, NoFrame)
    /\ UNCHANGED <<memory, zero_flag, carry_flag, running, last_input>>

StepINP ==
    /\ Fetch(INP)
    /\ reg' = [reg EXCEPT !.A = IF last_input # 0 THEN last_input ELSE 0,
                          !.PC = @ + 1]
    /\ last_input' = 0
    /\ Hist("INP", FALSE, frames, NoFrame)
    /\ UNCHANGED <<memory, zero_flag, carry_flag, running>>

SubResult(a, b) == a - b
SubCarryOffByOne(result) == result <= 0
SubCarry(result) == result < 0

StepSUB ==
    /\ Fetch(SUB)
    /\ LET result == SubResult(reg.A, reg.B) IN
         /\ carry_flag' = SubCarry(result)
         /\ reg' = [reg EXCEPT !.A = Mask8(result), !.PC = @ + 1]
         /\ zero_flag' = (Mask8(result) = 0)
    /\ Hist("SUB", FALSE, frames, NoFrame)
    /\ UNCHANGED <<memory, running, last_input>>

StepINCUnmasked ==
    /\ Fetch(INC)
    /\ reg' = [reg EXCEPT !.A = reg.A + 1, !.PC = @ + 1]
    /\ zero_flag' = (reg.A + 1 = 0)
    /\ Hist("INC", FALSE, frames, NoFrame)
    /\ UNCHANGED <<memory, carry_flag, running, last_input>>

StepINCCarries ==
    /\ Fetch(INC)
    /\ reg' = [reg EXCEPT !.A = Mask8(reg.A + 1), !.PC = @ + 1]
    /\ zero_flag' = (Mask8(reg.A + 1) = 0)
    /\ carry_flag' = (reg.A + 1 > 255)
    /\ Hist("INC", FALSE, frames, NoFrame)
    /\ UNCHANGED <<memory, running, last_input>>

StepINC ==
    /\ Fetch(INC)
    /\ reg' = [reg EXCEPT !.A = Mask8(reg.A + 1), !.PC = @ + 1]
    /\ zero_flag' = (Mask8(reg.A + 1) = 0)
    /\ Hist("INC", FALSE, frames, NoFrame)
    /\ UNCHANGED <<memory, carry_flag, running, last_input>>

StepDECSaturates ==
    /\ Fetch(DEC)
    /\ reg' = [reg EXCEPT !.A = IF @ = 0 THEN 0 ELSE @ - 1, !.PC = @ + 1]
    /\ zero_flag' = (reg'.A = 0)
    /\ Hist("DEC", FALSE, frames, NoFrame)
    /\ UNCHANGED <<memory, carry_flag, running, last_input>>

StepDEC ==
    /\ Fetch(DEC)
    /\ reg' = [reg EXCEPT !.A = Mask8(reg.A - 1), !.PC = @ + 1]
    /\ zero_flag' = (Mask8(reg.A - 1) = 0)
    /\ Hist("DEC", FALSE, frames, NoFrame)
    /\ UNCHANGED <<memory, carry_flag, running, last_input>>

LoadAbsDefault(m, a, addr) == IF addr < MemLen THEN Cell(m, addr) ELSE 0

\* the load is skipped when the decoded address is out of range
LoadAbs(m, a, addr) == IF addr < MemLen THEN Cell(m, addr) ELSE a

StepLDA_ABS ==
    /\ Fetch(LDA_ABS)
    /\ reg' = IF ReadAddressOk(reg.PC + 1)
                THEN [reg EXCEPT !.A = LoadAbs(memory, reg.A,
                                               ReadAddress(memory, reg.PC + 1)),
                                 !.PC = @ + 3]
                ELSE reg
    /\ Hist("LDA_ABS", ~ReadAddressOk(reg.PC + 1), frames, NoFrame)
    /\ UNCHANGED <<memory, zero_flag, carry_flag, running, last_input>>

StepLDA_IDXWrapped ==
    /\ Fetch(LDA_IDX)
    /\ LET addr == Mask8(reg.B + reg.C) IN
         reg' = [reg EXCEPT !.A = IF addr < MemLen THEN Cell(memory, addr) ELSE @,
                            !.PC = @ + 1]
    /\ Hist("LDA_IDX", FALSE, frames, NoFrame)
    /\ UNCHANGED <<memory, zero_flag, carry_flag, running, last_input>>

StepLDA_IDX ==
    /\ Fetch(LDA_IDX)
    /\ LET addr == reg.B + reg.C IN
         reg' = [reg EXCEPT !.A = IF addr < MemLen THEN Cell(memory, addr) ELSE @,
                            !.PC = @ + 1]
    /\ Hist("LDA_IDX", FALSE, frames, NoFrame)
    /\ UNCHANGED <<memory, zero_flag, carry_flag, running, last_input>>

StepSTA_IDX ==
    /\ Fetch(STA_IDX)
    /\ LET addr == reg.B + reg.C IN
         memory' = IF addr < MemLen THEN Store(memory, addr, reg.A)
                                    ELSE memory
    /\ reg' = [reg EXCEPT !.PC = @ + 1]
    /\ Hist("STA_IDX", FALSE, Tainted(memory'), NoFrame)
    /\ UNCHANGED <<zero_flag, carry_flag, running, last_input>>

RetAddrOfOperand(pc) == pc + 1

\* ret_addr = pc + 3
RetAddr(pc) == pc + 3

\* CALL: _push(pc + 3) first, then PC = _read_address(pc + 1) from the memory
\* as the push left it; an IndexError of the read leaves the push done
StepCALL ==
    /\ Fetch(CALL)
    /\ LET pushed == Push(memory, reg.SP, RetAddr(reg.PC)) IN
         /\ memory' = pushed.memory
         /\ reg' = IF ReadAddressOk(reg.PC + 1)
                     THEN [reg EXCEPT !.SP = pushed.SP,
                                      !.PC = ReadAddress(pushed.memory, reg.PC + 1)]
                     ELSE [reg EXCEPT !.SP = pushed.SP]
    /\ Hist("CALL", ~ReadAddressOk(reg.PC + 1),
            Append(Tainted(memory'),
                   [ret |-> reg.PC + 3, sp |-> reg.SP, ok |-> TRUE]),
            NoFrame)
    /\ UNCHANGED <<zero_flag, carry_flag, running, last_input>>

StepRET ==
    /\ Fetch(RET)
    /\ LET popped == Pop(memory, reg.SP) IN
         reg' = [reg EXCEPT !.PC = popped.value, !.SP = popped.SP]
    /\ IF frames = <<>>
         THEN Hist("RET", FALSE, frames, NoFrame)
         ELSE Hist("RET", FALSE, SubSeq(frames, 1, Len(frames) - 1),
                   frames[Len(frames)])
    /\ UNCHANGED <<memory, zero_flag, carry_flag, running, last_input>>

\* the six register copies: reg[dst] = reg[src]; PC += 1
Mov(name, dst, src) ==
    /\ reg' = [reg EXCEPT ![dst] = reg[src], !.PC = @ + 1]
    /\ Hist(name, FALSE, frames, NoFrame)
    /\ UNCHANGED <<memory, zero_flag, carry_flag, running, last_input>>

StepMOV_BA ==
    /\ Fetch(MOV_BA)
    /\ Mov("MOV_BA", "B", "A")
StepMOV_AB ==
    /\ Fetch(MOV_AB)
    /\ Mov("MOV_AB", "A", "B")
StepMOV_CA ==
    /\ Fetch(MOV_CA)
    /\ Mov("MOV_CA", "C", "A")
StepMOV_AC ==
    /\ Fetch(MOV_AC)
    /\ Mov("MOV_AC", "A", "C")
StepMOV_DA ==
    /\ Fetch(MOV_DA)
    /\ Mov("MOV_DA", "D", "A")
StepMOV_AD ==
    /\ Fetch(MOV_AD)
    /\ Mov("MOV_AD", "A", "D")

StepAND ==
    /\ Fetch(AND)
    /\ reg' = [reg EXCEPT !.A = BitAnd(reg.A, reg.B), !.PC = @ + 1]
    /\ zero_flag' = (BitAnd(reg.A, reg.B) = 0)
    /\ Hist("AND", FALSE, frames, NoFrame)
    /\ UNCHANGED <<memory, carry_flag, running, last_input>>

StepOR ==
    /\ Fetch(OR)
    /\ reg' = [reg EXCEPT !.A = BitOr(reg.A, reg.B), !.PC = @ + 1]
    /\ zero_flag' = (BitOr(reg.A, reg.B) = 0)
    /\ Hist("OR", FALSE, frames, NoFrame)
    /\ UNCHANGED <<memory, carry_flag, running, last_input>>

HaltAdvances(pc) == pc + 1

\* HALT: running = False; PC stays on the HALT byte
HaltPC(pc) == pc

StepHALT ==
    /\ Fetch(HALT)
    /\ running' = FALSE
    /\ reg' = [reg EXCEPT !.PC = HaltPC(@)]
    /\ Hist("HALT", FALSE, frames, NoFrame)
    /\ UNCHANGED <<memory, zero_flag, carry_flag, last_input>>

UnknownSkipsOperand(pc) == pc + 2

\* the else arm: any byte that is no Opcode
UnknownPC(pc) == pc + 1

StepUnknown ==
    /\ InRange
    /\ At(memory, reg.PC) \notin Defined
    /\ reg' = [reg EXCEPT !.PC = UnknownPC(@)]
    /\ Hist("UNKNOWN", FALSE, frames, NoFrame)
    /\ UNCHANGED <<memory, zero_flag, carry_flag, running, last_input>>

----------------------------------------------------------------------------
(* External calls *)

\* show_info: len(Opcode), printed as the size of the instruction set
InstructionSetSize == Cardinality(Defined)

PokeNoLowerBound(addr, value) ==
    /\ pokes < MaxPokes
    /\ pokes' = pokes + 1
    /\ memory' = IF addr < MemLen /\ Valid(addr)
                   THEN Store(memory, IF addr < 0 THEN addr + MemLen ELSE addr,
                              Mask8(value))
                   ELSE memory
    /\ op' = "poke"
    /\ arg' = [program |-> <<>>, addr |-> addr, value |-> value]
    /\ raised' = FALSE
    /\ frames' = Tainted(memory')
    /\ matched' = NoFrame
    /\ UNCHANGED <<game, calls, scores, hs, run>>
    /\ UNCHANGED <<reg, zero_flag, carry_flag, running, last_input, cycles,
                   fetches, loads, injects, stk, injected, inps>>

\* GEMINIShell.write_memory (POKE): in-range addresses only, value & 0xFF
Poke(addr, value) ==
    /\ pokes < MaxPokes
    /\ pokes' = pokes + 1
    /\ memory' = IF 0 <= addr /\ addr < MemLen
                   THEN Store(memory, addr, Mask8(value))
                   ELSE memory
    /\ op' = "poke"
    /\ arg' = [program |-> <<>>, addr |-> addr, value |-> value]
    /\ raised' = FALSE
    /\ frames' = Tainted(memory')
    /\ matched' = NoFrame
    /\ UNCHANGED <<game, calls, scores, hs, run>>
    /\ UNCHANGED <<reg, zero_flag, carry_flag, running, last_input, cycles,
                   fetches, loads, injects, stk, injected, inps>>

LoadedMemoryUnbounded(m, program, start_addr) ==
    LET written == {start_addr + i - 1 : i \in 1 .. Len(program)}
        val(a) == IF a \in written THEN program[a - start_addr + 1]
                                   ELSE Cell(m, a)
    IN  [a \in {x \in DOMAIN m \cup written : val(x) # 0} |-> val(a)]

\* load_program: memory[start_addr + i] = val wherever start_addr + i < len
\* (start_addr >= 0)
LoadedMemory(m, program, start_addr) ==
    LET written == {start_addr + i - 1 : i \in 1 .. Len(program)}
                     \cap (0 .. MemLen - 1)
        val(a) == IF a \in written THEN program[a - start_addr + 1]
                                   ELSE Cell(m, a)
    IN  [a \in {x \in DOMAIN m \cup written : val(x) # 0} |-> val(a)]

\* one program is loaded into an engine, before its first step
LoadProgram(program, start_addr) ==
    /\ loads = 0
    /\ cycles = 0
    /\ loads' = loads + 1
    /\ memory' = LoadedMemory(memory, program, start_addr)
    /\ op' = "load"
    /\ arg' = [program |-> program, addr |-> start_addr, value |-> 0]
    /\ raised' = FALSE
    /\ frames' = Tainted(memory')
    /\ matched' = NoFrame
    /\ UNCHANGED <<game, calls, scores, hs, run>>
    /\ UNCHANGED <<reg, zero_flag, carry_flag, running, last_input, cycles,
                   fetches, pokes, injects, stk, injected, inps>>

SetPendingInputKeepsFirst(byte) ==
    /\ injects' = injects + 1
    /\ last_input' = IF last_input # 0 THEN last_input ELSE byte
    /\ op' = "inject"
    /\ arg' = [program |-> <<>>, addr |-> 0, value |-> byte]
    /\ injected' = Append(injected, byte)
    /\ inps' = 0
    /\ raised' = FALSE
    /\ matched' = NoFrame
    /\ UNCHANGED <<game, calls, scores, hs, run>>
    /\ UNCHANGED <<memory, reg, zero_flag, carry_flag, running, cycles,
                   fetches, frames, pokes, loads, stk>>

\* set_pending_input: the one pending byte is overwritten
SetPendingInput(byte) ==
    /\ injects' = injects + 1
    /\ last_input' = byte
    /\ op' = "inject"
    /\ arg' = [program |-> <<>>, addr |-> 0, value |-> byte]
    /\ injected' = Append(injected, byte)
    /\ inps' = 0
    /\ raised' = FALSE
    /\ matched' = NoFrame
    /\ UNCHANGED <<game, calls, scores, hs, run>>
    /\ UNCHANGED <<memory, reg, zero_flag, carry_flag, running, cycles,
                   fetches, frames, pokes, loads, stk>>

----------------------------------------------------------------------------
(* The monitor's RUN command *)

\* while self.cpu.running and steps < 1000
RUN_LIMIT == 1000

RunGuardIgnoresRunning == run.steps < RUN_LIMIT

RunGuard == running /\ run.steps < RUN_LIMIT

\* RUN [addr]: PC = start_addr, running = True, steps = 0, and into the loop
MonitorRun(start_addr) ==
    /\ ~InCommand
    /\ run.runs < MaxRuns
    /\ reg' = [reg EXCEPT !.PC = start_addr]
    /\ running' = TRUE
    /\ run' = [run EXCEPT !.active = TRUE, !.steps = 0, !.runs = @ + 1]
    /\ op' = "RUN"
    /\ arg' = [program |-> <<>>, addr |-> start_addr, value |-> 0]
    /\ raised' = FALSE
    /\ matched' = NoFrame
    /\ UNCHANGED <<memory, zero_flag, carry_flag, last_input, cycles, fetches,
                   frames, pokes, loads, injects, stk, injected, inps, game,
                   calls, scores, hs>>

\* RESET: reg, the two flags and running are assigned; nothing else is
MonitorReset ==
    /\ ~InCommand
    /\ run.cmds < MaxCommands
    /\ reg' = [A |-> 0, B |-> 0, C |-> 0, D |-> 0, PC |-> 0, SP |-> STACK_TOP]
    /\ zero_flag' = FALSE
    /\ carry_flag' = FALSE
    /\ running' = TRUE
    /\ run' = [run EXCEPT !.cmds = @ + 1]
    /\ op' = "RESET"
    /\ arg' = NoArg
    /\ raised' = FALSE
    /\ matched' = NoFrame
    /\ UNCHANGED <<memory, last_input, cycles, fetches, frames, pokes, loads,
                   injects, stk, injected, inps, game, calls, scores, hs>>

StepGuardAlways == TRUE

\* STEP's loop body: if self.cpu.running: self.cpu.step()
StepGuard == running

\* STEP [n]: for _ in range(n), an empty range when n <= 0
MonitorStep(n) ==
    /\ ~InCommand
    /\ run.cmds < MaxCommands
    /\ run' = [run EXCEPT !.left = IF n > 0 THEN n ELSE 0, !.cmds = @ + 1]
    /\ op' = "STEP"
    /\ arg' = [program |-> <<>>, addr |-> 0, value |-> n]
    /\ raised' = FALSE
    /\ matched' = NoFrame
    /\ UNCHANGED <<memory, reg, zero_flag, carry_flag, running, last_input,
                   cycles, fetches, frames, pokes, loads, injects, stk,
                   injected, inps, game, calls, scores, hs>>

\* an iteration of STEP's loop on a stopped engine: step() is not called
StepSkip ==
    /\ run.left > 0
    /\ ~StepGuard
    /\ run' = [run EXCEPT !.left = @ - 1]
    /\ op' = "skip"
    /\ arg' = NoArg
    /\ raised' = FALSE
    /\ matched' = NoFrame
    /\ UNCHANGED <<memory, reg, zero_flag, carry_flag, running, last_input,
                   cycles, fetches, frames, pokes, loads, injects, stk,
                   injected, inps, game, calls, scores, hs>>

\* the loop is left: the monitor prints the number of steps executed
RunExit ==
    /\ run.active
    /\ ~RunGuard
    /\ run' = [run EXCEPT !.active = FALSE]
    /\ op' = "ran"
    /\ arg' = NoArg
    /\ raised' = FALSE
    /\ matched' = NoFrame
    /\ UNCHANGED <<memory, reg, zero_flag, carry_flag, running, last_input,
                   cycles, fetches, frames, pokes, loads, injects, stk,
                   injected, inps, game, calls, scores, hs>>

----------------------------------------------------------------------------
(* The _push/_pop round trip, applied to a chosen value *)
DoPush(x) ==
    /\ stk.phase = "idle"
    /\ LET pushed == Push(memory, reg.SP, x) IN
         /\ memory' = pushed.memory
         /\ reg' = [reg EXCEPT !.SP = pushed.SP]
    /\ stk' = [phase |-> "pushed", x |-> x, sp0 |-> reg.SP, result |-> -1]
    /\ op' = "push"
    /\ UNCHANGED <<game, calls, scores, hs, run>>
    /\ UNCHANGED <<zero_flag, carry_flag, running, last_input, cycles, raised,
                   fetches, frames, matched, pokes, loads, injects, arg,
                   injected, inps>>

DoPop ==
    /\ stk.phase = "pushed"
    /\ LET popped == Pop(memory, reg.SP) IN
         /\ reg' = [reg EXCEPT !.SP = popped.SP]
         /\ stk' = [stk EXCEPT !.phase = "popped", !.result = popped.value]
    /\ op' = "pop"
    /\ UNCHANGED <<game, calls, scores, hs, run>>
    /\ UNCHANGED <<memory, zero_flag, carry_flag, running, last_input, cycles,
                   raised, fetches, frames, matched, pokes, loads, injects, arg,
                   injected, inps>>

----------------------------------------------------------------------------
(* HighScoreManager *)

\* get_high_score: scores.get(game_name, 0)
GetHighScore(sc, name) == IF name \in DOMAIN sc THEN sc[name] ELSE 0

BeatsOrTies(sc, name, score) == score >= GetHighScore(sc, name)

\* update_high_score: `if score > current`
Beats(sc, name, score) == score > GetHighScore(sc, name)

\* update_high_score: the dict after the call
Saved(sc, name, score) ==
    IF Beats(sc, name, score)
      THEN [n \in DOMAIN sc \cup {name} |-> IF n = name THEN score ELSE sc[n]]
      ELSE sc

\* history of update_high_score(name, score) made on the dict sc
Submission(h, sc, name, score) ==
    [name |-> name, score |-> score, returned |-> Beats(sc, name, score),
     submitted |-> [n \in DOMAIN h.submitted \cup {name} |->
                      IF n = name
                        THEN (IF n \in DOMAIN h.submitted
                                THEN h.submitted[n] ELSE {}) \cup {score}
                        ELSE h.submitted[n]]]

\* the calls update_high_score(name, s) of the sequence ss, oldest first
RECURSIVE SavedAll(_, _, _)
SavedAll(sc, name, ss) ==
    IF ss = <<>> THEN sc ELSE SavedAll(Saved(sc, name, Head(ss)), name, Tail(ss))

RECURSIVE SubmittedAll(_, _, _, _)
SubmittedAll(h, sc, name, ss) ==
    IF ss = <<>> THEN h
    ELSE SubmittedAll(Submission(h, sc, name, Head(ss)),
                      Saved(sc, name, Head(ss)), name, Tail(ss))

UpdateHighScore(name, score) ==
    /\ calls < MaxGameCalls
    /\ calls' = calls + 1
    /\ scores' = Saved(scores, name, score)
    /\ hs' = Submission(hs, scores, name, score)
    /\ op' = "update_high_score"
    /\ UNCHANGED <<memory, reg, zero_flag, carry_flag, running, last_input,
                   cycles, raised, fetches, frames, matched, pokes, loads,
                   injects, stk, arg, injected, inps, game, run>>

----------------------------------------------------------------------------
(* The games' writes to the engine *)

OnScreen(x, y) == 0 <= x /\ x < FB_WIDTH /\ 0 <= y /\ y < FB_HEIGHT

\* addr = VRAM_START + y * width + x (a game's width is cpu.FB_WIDTH)
Pixel(x, y) == VRAM_START + y * FB_WIDTH + x

VramCellsAndNext == VRAM_START .. VRAM_START + VRAM_SIZE

\* range(VRAM_START, VRAM_START + VRAM_SIZE)
VramCells == VRAM_START .. VRAM_START + VRAM_SIZE - 1

\* for i in range(VRAM_START, vram_end): memory[i] = DisplayChar.EMPTY
ClearVram(m) == [a \in DOMAIN m \ VramCells |-> m[a]]

\* memory[addr] = v for each <<addr, v>> of ws in turn; a list index outside
\* [-len, len) raises IndexError and the writes after it are not made
Plot(m, ws) ==
    LET bad == {i \in 1 .. Len(ws) : ~Valid(ws[i][1])}
        n == IF bad = {} THEN Len(ws)
             ELSE (CHOOSE i \in bad : \A j \in bad : i <= j) - 1
        cell(i) == IF ws[i][1] < 0 THEN ws[i][1] + MemLen ELSE ws[i][1]
        \* the cells written by writes lo .. hi, a later write over an earlier
        RECURSIVE Written(_, _)
        Written(lo, hi) ==
            IF lo = hi THEN cell(lo) :> ws[lo][2]
            ELSE Written((lo + hi) \div 2 + 1, hi) @@ Written(lo, (lo + hi) \div 2)
        all == IF n = 0 THEN m ELSE Written(1, n) @@ m
    IN  [a \in {x \in DOMAIN all : all[x] # 0} |-> all[a]]

\* the writes of one row of the screen, columns lo .. hi in turn: row[x] is
\* the value written at (x, y), 0 where nothing is written
RowWrites(lo, hi, y, row) ==
    LET Drawn(w) == w[2] # 0
    IN  SelectSeq([i \in 1 .. hi - lo + 1 |->
                     <<Pixel(lo + i - 1, y), row[lo + i - 1]>>], Drawn)

PlotRaises(ws) == \E i \in 1 .. Len(ws) : ~Valid(ws[i][1])

Min(a, b) == IF a < b THEN a ELSE b
Max(a, b) == IF a > b THEN a ELSE b

\* update_display: clear, draw, then memory[SCORE_ADDR] = min(score, 255)
Display(m, ws, score) ==
    IF PlotRaises(ws) THEN Plot(ClearVram(m), ws)
    ELSE Store(Plot(ClearVram(m), ws), SCORE_ADDR, Min(score, 255))

\* load_high_score: memory[HIGH_SCORE_ADDR] = min(high_score, 255)
LoadHighScore(m, sc, name) ==
    Store(m, HIGH_SCORE_ADDR, Min(GetHighScore(sc, name), 255))

\* a call on the game: it leaves the game as g2 and the memory as m2, after
\* the save_high_score calls with the scores ss; exc: it raised IndexError
GameCall(name, g2, m2, ss, exc) ==
    /\ calls' = calls + 1
    /\ game' = g2
    /\ memory' = m2
    /\ scores' = SavedAll(scores, g2.name, ss)
    /\ hs' = SubmittedAll(hs, scores, g2.name, ss)
    /\ op' = name
    /\ raised' = exc
    /\ frames' = Tainted(memory')
    /\ matched' = NoFrame
    /\ arg' = NoArg
    /\ UNCHANGED <<reg, zero_flag, carry_flag, running, last_input, cycles,
                   fetches, pokes, loads, injects, stk, injected, inps, run>>

\* reset() begins: if self.score > 0: save_high_score()
ResetSaves(g) == IF g.score > 0 THEN <<g.score>> ELSE <<>>

\* the keys the game loop hands to handle_input
Keys == {"UP", "DOWN", "LEFT", "RIGHT", " "}

----------------------------------------------------------------------------
(* SnakeGame *)
GameConfig == [width |-> FB_WIDTH, height |-> FB_HEIGHT, points_per_food |-> 10]

\* random.randint draws of place_food, a sample of the screen
FoodCells == {<<9, 8>>, <<10, 8>>, <<8, 9>>, <<15, 15>>}

\* place_food: a drawn cell not in the snake, (0, 0) after 100 draws in it
PlaceFood(snake) ==
    {c \in FoodCells \cup {<<0, 0>>} : \A i \in 1 .. Len(snake) : snake[i] # c}
        \cup {<<0, 0>>}

SnakeWrites(g) ==
    LET body == [i \in 1 .. Len(g.snake) |->
                    <<Pixel(g.snake[i][1], g.snake[i][2]),
                      IF i = 1 THEN 3 ELSE 8>>]
        shown == [i \in 1 .. Len(g.snake) |->
                    OnScreen(g.snake[i][1], g.snake[i][2])]
        RECURSIVE Kept(_)
        Kept(i) == IF i > Len(body) THEN <<>>
                   ELSE (IF shown[i] THEN <<body[i]>> ELSE <<>>) \o Kept(i + 1)
    IN  Kept(1) \o (IF OnScreen(g.food[1], g.food[2])
                      THEN << <<Pixel(g.food[1], g.food[2]), 5>> >> ELSE <<>>)

\* reset(), also the last call of __init__ (score is 0 there)
SnakeReset(g) ==
    \E food \in PlaceFood(<< <<FB_WIDTH \div 2, FB_HEIGHT \div 2>> >>) :
        LET g2 == [name |-> "Snake", score |-> 0, game_over |-> FALSE,
                   snake |-> << <<FB_WIDTH \div 2, FB_HEIGHT \div 2>> >>,
                   direction |-> <<1, 0>>, food |-> food,
                   applied |-> <<0, 0>>]
            sc2 == SavedAll(scores, "Snake", ResetSaves(g))
            m1 == LoadHighScore(memory, sc2, "Snake")
        IN  GameCall("reset", g2, Display(m1, SnakeWrites(g2), 0),
                     ResetSaves(g), PlotRaises(SnakeWrites(g2)))

SnakeNew ==
    /\ game = NoGame
    /\ SnakeReset([score |-> 0])

SnakeGameReset ==
    /\ game.name = "Snake"
    /\ SnakeReset(game)

InSnake(c, snake) == \E i \in 1 .. Len(snake) : snake[i] = c

SnakeUpdateAlwaysPops ==
    /\ game.name = "Snake"
    /\ LET new == <<game.snake[1][1] + game.direction[1],
                    game.snake[1][2] + game.direction[2]>>
           \* history: the direction this update moves the head by,
           \* (0, 0) before the first update
           moved == [game EXCEPT !.applied = game.direction]
       IN  IF game.game_over
             THEN GameCall("update", game, memory, <<>>, FALSE)
           ELSE IF ~OnScreen(new[1], new[2]) \/ InSnake(new, game.snake)
             THEN GameCall("update", [moved EXCEPT !.game_over = TRUE], memory,
                           <<game.score>>, FALSE)
           ELSE IF new = game.food
             THEN \E food \in PlaceFood(<<new>> \o game.snake) :
                    LET g2 == [moved EXCEPT
                                 !.snake = <<new>> \o SubSeq(game.snake, 1,
                                                            Len(game.snake) - 1),
                                 !.score = @ + GameConfig.points_per_food,
                                 !.food = food]
                    IN  GameCall("update", g2,
                                 Display(memory, SnakeWrites(g2), g2.score),
                                 <<>>, PlotRaises(SnakeWrites(g2)))
           ELSE LET g2 == [moved EXCEPT
                             !.snake = <<new>> \o SubSeq(game.snake, 1,
                                                        Len(game.snake) - 1)]
                IN  GameCall("update", g2,
                             Display(memory, SnakeWrites(g2), g2.score),
                             <<>>, PlotRaises(SnakeWrites(g2)))

SnakeUpdate ==
    /\ game.name = "Snake"
    /\ LET new == <<game.snake[1][1] + game.direction[1],
                    game.snake[1][2] + game.direction[2]>>
           \* history: the direction this update moves the head by,
           \* (0, 0) before the first update
           moved == [game EXCEPT !.applied = game.direction]
       IN  IF game.game_over
             THEN GameCall("update", game, memory, <<>>, FALSE)
           ELSE IF ~OnScreen(new[1], new[2]) \/ InSnake(new, game.snake)
             THEN GameCall("update", [moved EXCEPT !.game_over = TRUE], memory,
                           <<game.score>>, FALSE)
           ELSE IF new = game.food
             THEN \E food \in PlaceFood(<<new>> \o game.snake) :
                    LET g2 == [moved EXCEPT
                                 !.snake = <<new>> \o game.snake,
                                 !.score = @ + GameConfig.points_per_food,
                                 !.food = food]
                    IN  GameCall("update", g2,
                                 Display(memory, SnakeWrites(g2), g2.score),
                                 <<>>, PlotRaises(SnakeWrites(g2)))
           ELSE LET g2 == [moved EXCEPT
                             !.snake = <<new>> \o SubSeq(game.snake, 1,
                                                        Len(game.snake) - 1)]
                IN  GameCall("update", g2,
                             Display(memory, SnakeWrites(g2), g2.score),
                             <<>>, PlotRaises(SnakeWrites(g2)))

DirectionMap == [UP |-> <<0, -1>>, DOWN |-> <<0, 1>>,
                 LEFT |-> <<-1, 0>>, RIGHT |-> <<1, 0>>]

SnakeHandleInput(key) ==
    /\ game.name = "Snake"
    /\ LET turn == key \in DOMAIN DirectionMap
                   /\ DirectionMap[key] # <<-game.direction[1],
                                            -game.direction[2]>>
       IN  GameCall("handle_input",
                    IF turn THEN [game EXCEPT !.direction = DirectionMap[key]]
                            ELSE game,
                    memory, <<>>, FALSE)

----------------------------------------------------------------------------
(* PongGame *)
PaddleHeight == 4

PongWrites(g) ==
    LET RECURSIVE Paddle(_)
        Paddle(i) ==
            IF i >= PaddleHeight THEN <<>>
            ELSE (IF 0 <= g.paddle_y + i /\ g.paddle_y + i < FB_HEIGHT
                    THEN << <<Pixel(0, g.paddle_y + i), 6>> >> ELSE <<>>)
                 \o Paddle(i + 1)
    IN  Paddle(0) \o (IF OnScreen(g.ball_x, g.ball_y)
                        THEN << <<Pixel(g.ball_x, g.ball_y), 7>> >> ELSE <<>>)

PongShown(g2, ss) ==
    GameCall("update", g2,
             Display(memory, PongWrites(g2), g2.score), ss,
             PlotRaises(PongWrites(g2)))

PongReset(g) ==
    \E dy \in {-1, 1} :
        LET g2 == [name |-> "Pong", score |-> 0, game_over |-> FALSE,
                   paddle_y |-> FB_HEIGHT \div 2 - PaddleHeight \div 2,
                   ball_x |-> FB_WIDTH \div 2, ball_y |-> FB_HEIGHT \div 2,
                   ball_dx |-> 1, ball_dy |-> dy]
            sc2 == SavedAll(scores, "Pong", ResetSaves(g))
            m1 == LoadHighScore(memory, sc2, "Pong")
        IN  GameCall("reset", g2, Display(m1, PongWrites(g2), 0),
                     ResetSaves(g), PlotRaises(PongWrites(g2)))

PongNew ==
    /\ game = NoGame
    /\ PongReset([score |-> 0])

PongGameReset ==
    /\ game.name = "Pong"
    /\ PongReset(game)

PongUpdate ==
    /\ game.name = "Pong"
    /\ LET x1 == game.ball_x + game.ball_dx
           y1 == game.ball_y + game.ball_dy
           bounce == y1 <= 0 \/ y1 >= FB_HEIGHT - 1
           dy1 == IF bounce THEN -game.ball_dy ELSE game.ball_dy
           y2 == IF bounce THEN Max(0, Min(FB_HEIGHT - 1, y1)) ELSE y1
           wall == x1 >= FB_WIDTH - 1
           dx1 == IF wall THEN -game.ball_dx ELSE game.ball_dx
           score1 == IF wall THEN game.score + 1 ELSE game.score
           caught == game.paddle_y <= y2 /\ y2 < game.paddle_y + PaddleHeight
           g1 == [game EXCEPT !.ball_x = x1, !.ball_y = y2, !.ball_dx = dx1,
                              !.ball_dy = dy1, !.score = score1]
       IN  IF game.game_over
             THEN GameCall("update", game, memory, <<>>, FALSE)
           ELSE IF x1 # 0
             THEN PongShown(g1, <<>>)
           ELSE IF caught
             THEN PongShown([g1 EXCEPT !.ball_dx = -dx1, !.ball_x = 1,
                                       !.score = score1 + 5], <<>>)
           ELSE PongShown([g1 EXCEPT !.game_over = TRUE], <<score1>>)

PongHandleInput(key) ==
    /\ game.name = "Pong"
    /\ LET g2 == IF key = "UP"
                   THEN [game EXCEPT !.paddle_y = Max(0, @ - 2)]
                   ELSE [game EXCEPT
                           !.paddle_y = Min(FB_HEIGHT - PaddleHeight, @ + 2)]
       IN  IF key \in {"UP", "DOWN"}
             THEN GameCall("handle_input", g2,
                           Display(memory, PongWrites(g2), g2.score), <<>>,
                           PlotRaises(PongWrites(g2)))
             ELSE GameCall("handle_input", game, memory, <<>>, FALSE)

----------------------------------------------------------------------------
(* BreakoutGame *)
PaddleWidth == 4

\* reset(): for y in range(2, 6): for x in range(2, width - 2)
BrickRows == 2 .. 5
BrickColumns == 2 .. FB_WIDTH - 3
AllBricks == BrickColumns \X BrickRows

\* the bricks left, in the order of the list
BrickWrites(bricks) ==
    LET V(x, y) == IF <<x, y>> \in bricks THEN 10 ELSE 0
        RECURSIVE Rows(_)
        Rows(y) == IF y > 5 THEN <<>>
                   ELSE RowWrites(2, FB_WIDTH - 3, y,
                                   [x \in BrickColumns |-> V(x, y)])
                        \o Rows(y + 1)
    IN  Rows(2)

BreakoutWrites(g) ==
    LET RECURSIVE Paddle(_)
        Paddle(i) ==
            IF i >= PaddleWidth THEN <<>>
            ELSE (IF 0 <= g.paddle_x + i /\ g.paddle_x + i < FB_WIDTH
                    THEN << <<Pixel(g.paddle_x + i, FB_HEIGHT - 1), 6>> >>
                    ELSE <<>>)
                 \o Paddle(i + 1)
    IN  BrickWrites(g.bricks) \o Paddle(0)
          \o (IF OnScreen(g.ball_x, g.ball_y)
                THEN << <<Pixel(g.ball_x, g.ball_y), 7>> >> ELSE <<>>)

BreakoutShown(name, g2, ss) ==
    GameCall(name, g2, Display(memory, BreakoutWrites(g2), g2.score), ss,
             PlotRaises(BreakoutWrites(g2)))

BreakoutReset(g) ==
    \E dx \in {-1, 1} :
        LET g2 == [name |-> "Breakout", score |-> 0, game_over |-> FALSE,
                   paddle_x |-> FB_WIDTH \div 2 - PaddleWidth \div 2,
                   ball_x |-> FB_WIDTH \div 2, ball_y |-> FB_HEIGHT - 3,
                   ball_dx |-> dx, ball_dy |-> -1,
                   bricks |-> AllBricks, lives |-> 3]
            sc2 == SavedAll(scores, "Breakout", ResetSaves(g))
            m1 == LoadHighScore(memory, sc2, "Breakout")
        IN  GameCall("reset", g2, Display(m1, BreakoutWrites(g2), 0),
                     ResetSaves(g), PlotRaises(BreakoutWrites(g2)))

BreakoutNew ==
    /\ game = NoGame
    /\ BreakoutReset([score |-> 0])

BreakoutGameReset ==
    /\ game.name = "Breakout"
    /\ BreakoutReset(game)

BreakoutUpdate ==
    /\ game.name = "Breakout"
    /\ LET next_x == game.ball_x + game.ball_dx
           next_y == game.ball_y + game.ball_dy
           hit_x == <<next_x, game.ball_y>> \in game.bricks
           hit_y == <<game.ball_x, next_y>> \in game.bricks
           hit_corner == <<next_x, next_y>> \in game.bricks
           gone == IF hit_x /\ hit_y
                     THEN {<<next_x, game.ball_y>>, <<game.ball_x, next_y>>}
                   ELSE IF hit_x THEN {<<next_x, game.ball_y>>}
                   ELSE IF hit_y THEN {<<game.ball_x, next_y>>}
                   ELSE IF hit_corner THEN {<<next_x, next_y>>}
                   ELSE {}
           dx1 == IF hit_x \/ (~hit_y /\ hit_corner)
                    THEN -game.ball_dx ELSE game.ball_dx
           dy1 == IF hit_y \/ (~hit_x /\ hit_corner)
                    THEN -game.ball_dy ELSE game.ball_dy
           score1 == game.score + (IF hit_x /\ hit_y THEN 20
                                   ELSE IF gone # {} THEN 10 ELSE 0)
           g1 == [game EXCEPT !.bricks = @ \ gone, !.ball_dx = dx1,
                              !.ball_dy = dy1, !.score = score1]
           x1 == game.ball_x + dx1
           y1 == game.ball_y + dy1
           side == x1 <= 0 \/ x1 >= FB_WIDTH - 1
           dx2 == IF side THEN -dx1 ELSE dx1
           x2 == IF side THEN Max(0, Min(FB_WIDTH - 1, x1)) ELSE x1
           dy2 == IF y1 <= 0 THEN -dy1 ELSE dy1
           y2 == IF y1 <= 0 THEN 1 ELSE y1
           g2 == [g1 EXCEPT !.ball_x = x2, !.ball_y = y2, !.ball_dx = dx2,
                            !.ball_dy = dy2]
           pos_in_paddle == x2 - game.paddle_x
           caught == game.paddle_x <= x2 /\ x2 < game.paddle_x + PaddleWidth
       IN  IF game.game_over
             THEN GameCall("update", game, memory, <<>>, FALSE)
           ELSE IF g1.bricks = {}
             THEN BreakoutShown("update", [g1 EXCEPT !.game_over = TRUE],
                                <<score1>>)
           ELSE IF y2 < FB_HEIGHT - 2
             THEN BreakoutShown("update", g2, <<>>)
           ELSE IF caught
             THEN BreakoutShown("update",
                    [g2 EXCEPT !.ball_y = FB_HEIGHT - 2, !.ball_dy = -1,
                               !.ball_dx = IF pos_in_paddle = 0 THEN -1
                                           ELSE IF pos_in_paddle
                                                     = PaddleWidth - 1 THEN 1
                                           ELSE dx2], <<>>)
           ELSE IF game.lives - 1 <= 0
             THEN BreakoutShown("update",
                    [g2 EXCEPT !.lives = @ - 1, !.game_over = TRUE],
                    <<score1>>)
           ELSE \E dx \in {-1, 1} :
                  BreakoutShown("update",
                    [g2 EXCEPT !.lives = @ - 1,
                               !.ball_x = game.paddle_x + PaddleWidth \div 2,
                               !.ball_y = FB_HEIGHT - 3,
                               !.ball_dx = dx, !.ball_dy = -1], <<>>)

BreakoutHandleInput(key) ==
    /\ game.name = "Breakout"
    /\ LET g2 == IF key = "LEFT"
                   THEN [game EXCEPT !.paddle_x = Max(0, @ - 2)]
                   ELSE [game EXCEPT
                           !.paddle_x = Min(FB_WIDTH - PaddleWidth, @ + 2)]
       IN  IF key \in {"LEFT", "RIGHT"}
             THEN BreakoutShown("handle_input", g2, <<>>)
             ELSE GameCall("handle_input", game, memory, <<>>, FALSE)

----------------------------------------------------------------------------
(* RacingGame *)

\* spawn_obstacle: random.randint(2, width - 3), a sample of the road
SpawnColumns == {FB_WIDTH \div 2, 2, FB_WIDTH - 3}

RacingWrites(g) ==
    LET RECURSIVE Edges(_)
        Edges(y) ==
            IF y >= FB_HEIGHT THEN <<>>
            ELSE << <<VRAM_START + y * FB_WIDTH, 4>>,
                    <<VRAM_START + y * FB_WIDTH + (FB_WIDTH - 1), 4>> >>
                 \o Edges(y + 1)
        RECURSIVE Obstacles(_)
        Obstacles(i) ==
            IF i > Len(g.obstacles) THEN <<>>
            ELSE (IF OnScreen(g.obstacles[i][1], g.obstacles[i][2])
                    THEN << <<Pixel(g.obstacles[i][1], g.obstacles[i][2]), 12>> >>
                    ELSE <<>>)
                 \o Obstacles(i + 1)
    IN  Edges(0) \o Obstacles(1)
          \o (IF 0 <= g.car_x /\ g.car_x < FB_WIDTH
                THEN << <<Pixel(g.car_x, FB_HEIGHT - 2), 11>> >> ELSE <<>>)

RacingShown(name, g2, m, ss) ==
    GameCall(name, g2, Display(m, RacingWrites(g2), g2.score), ss,
             PlotRaises(RacingWrites(g2)))

RacingReset(g) ==
    LET g2 == [name |-> "Racing", score |-> 0, game_over |-> FALSE,
               car_x |-> FB_WIDTH \div 2, obstacles |-> <<>>,
               scroll_offset |-> 0]
        sc2 == SavedAll(scores, "Racing", ResetSaves(g))
    IN  RacingShown("reset", g2, LoadHighScore(memory, sc2, "Racing"),
                    ResetSaves(g))

RacingNew ==
    /\ game = NoGame
    /\ RacingReset([score |-> 0])

RacingGameReset ==
    /\ game.name = "Racing"
    /\ RacingReset(game)

\* the obstacles one row down, those past the last row dropped
MovedDown(obstacles) ==
    LET Stays(o) == o[2] < FB_HEIGHT
    IN  SelectSeq([i \in 1 .. Len(obstacles) |->
                     <<obstacles[i][1], obstacles[i][2] + 1>>], Stays)

RacingUpdate ==
    /\ game.name = "Racing"
    /\ IF game.game_over
         THEN GameCall("update", game, memory, <<>>, FALSE)
         ELSE \E spawned \in {<<>>} \cup {<< <<x, 0>> >> : x \in SpawnColumns} :
                LET g1 == [game EXCEPT
                             !.obstacles = MovedDown(@) \o spawned]
                    crash == \E i \in 1 .. Len(g1.obstacles) :
                                 g1.obstacles[i] = <<game.car_x, FB_HEIGHT - 2>>
                IN  IF crash
                      THEN GameCall("update", [g1 EXCEPT !.game_over = TRUE],
                                    memory, <<game.score>>, FALSE)
                      ELSE RacingShown("update", [g1 EXCEPT !.score = @ + 1],
                                       memory, <<>>)

RacingHandleInput(key) ==
    /\ game.name = "Racing"
    /\ LET g2 == IF key = "LEFT"
                   THEN [game EXCEPT !.car_x = Max(1, @ - 1)]
                   ELSE [game EXCEPT !.car_x = Min(FB_WIDTH - 2, @ + 1)]
       IN  IF key \in {"LEFT", "RIGHT"}
             THEN RacingShown("handle_input", g2, memory, <<>>)
             ELSE GameCall("handle_input", game, memory, <<>>, FALSE)

----------------------------------------------------------------------------
(* PacManGame *)

\* 0 = corridor, 1 = wall, 2 = dot, 3 = power pellet; row y, column x
MAZE_TEMPLATE ==
    << <<1,1,1,1,1,1,1,1,1,1,1,1,1,1,1,1>>,
       <<1,2,2,2,2,2,2,1,2,2,2,2,2,2,2,1>>,
       <<1,2,1,1,2,1,2,1,2,1,1,2,1,1,2,1>>,
       <<1,3,1,1,2,2,2,2,2,1,1,2,2,2,2,1>>,
       <<1,2,2,2,2,1,1,1,1,1,2,2,1,1,1,1>>,
       <<1,2,1,1,2,2,2,2,2,2,2,1,1,1,2,1>>,
       <<1,2,1,1,2,1,1,1,1,2,2,1,1,1,2,1>>,
       <<1,2,2,2,2,1,2,0,0,2,1,2,2,2,2,1>>,
       <<1,2,1,1,2,1,2,1,1,1,1,1,2,1,1,1>>,
       <<1,2,1,1,2,1,2,2,2,2,2,2,2,1,1,1>>,
       <<1,2,2,2,2,1,1,1,1,1,1,2,1,2,2,1>>,
       <<1,2,1,1,2,2,2,2,2,2,1,2,1,1,2,1>>,
       <<1,2,1,1,2,1,1,1,1,2,1,2,1,1,2,1>>,
       <<1,2,2,2,2,1,1,1,1,2,2,2,2,2,3,1>>,
       <<1,2,2,1,2,1,1,1,1,2,1,1,1,1,1,1>>,
       <<1,1,1,1,1,1,1,1,1,1,1,1,1,1,1,1>> >>

\* self.maze[y][x]; the maze is kept as the set of its cells set to 0 since
\* the copy of the template was made
MazeCell(mz, x, y) == IF <<x, y>> \in mz THEN 0 ELSE MAZE_TEMPLATE[y + 1][x + 1]

\* sum(row.count(2) + row.count(3) for row in self.maze)
CountDots(mz) ==
    Cardinality({c \in (0 .. 15) \X (0 .. 15) : MazeCell(mz, c[1], c[2]) \in {2, 3}})

Abs(x) == IF x < 0 THEN -x ELSE x

\* 0 <= nx < width and 0 <= ny < height and maze[ny][nx] != 1
Open(mz, nx, ny) == OnScreen(nx, ny) /\ MazeCell(mz, nx, ny) # 1

Ghost(x, y) == [x |-> x, y |-> y, start_x |-> x, start_y |-> y,
                scared |-> FALSE, eaten |-> FALSE, respawn_timer |-> 0]

\* _Ghost.move_toward: the first of the four directions with the least distance
MoveToward(gh, target_x, target_y, mz) ==
    LET dirs == << <<0, -1>>, <<0, 1>>, <<-1, 0>>, <<1, 0>> >>
        RECURSIVE Best(_, _, _)
        Best(i, best_pos, best_dist) ==
            IF i > Len(dirs) THEN best_pos
            ELSE LET nx == gh.x + dirs[i][1]
                     ny == gh.y + dirs[i][2]
                     dist == Abs(nx - target_x) + Abs(ny - target_y)
                 IN  IF Open(mz, nx, ny) /\ dist < best_dist
                       THEN Best(i + 1, <<nx, ny>>, dist)
                       ELSE Best(i + 1, best_pos, best_dist)
        best == Best(1, <<>>, 9999)
    IN  IF best # <<>> THEN [gh EXCEPT !.x = best[1], !.y = best[2]] ELSE gh

PacManWrites(g) ==
    LET Glyph(cell) == IF cell = 1 THEN 4 ELSE IF cell = 2 THEN 2 ELSE 14
        V(x, y) == IF MazeCell(g.maze, x, y) = 0 THEN 0
                   ELSE Glyph(MazeCell(g.maze, x, y))
        RECURSIVE Maze(_)
        Maze(y) == IF y >= FB_HEIGHT THEN <<>>
                   ELSE RowWrites(0, FB_WIDTH - 1, y,
                                   [x \in 0 .. FB_WIDTH - 1 |-> V(x, y)])
                        \o Maze(y + 1)
        RECURSIVE Ghosts(_)
        Ghosts(i) ==
            IF i > Len(g.ghosts) THEN <<>>
            ELSE (IF ~g.ghosts[i].eaten
                    THEN << <<Pixel(g.ghosts[i].x, g.ghosts[i].y),
                              IF g.ghosts[i].scared THEN 1 ELSE 12>> >>
                    ELSE <<>>) \o Ghosts(i + 1)
    IN  Maze(0) \o Ghosts(1) \o << <<Pixel(g.player_x, g.player_y), 15>> >>

PacManReset(g) ==
    LET g2 == [name |-> "Pac-Man", score |-> 0, game_over |-> FALSE,
               maze |-> {}, total_dots |-> CountDots({}),
               dots_remaining |-> CountDots({}),
               player_x |-> 9, player_y |-> 13, player_dx |-> 0,
               player_dy |-> 0, next_dx |-> 0, next_dy |-> 0,
               ghosts |-> <<Ghost(7, 7), Ghost(8, 7), Ghost(7, 8), Ghost(8, 8)>>,
               power_mode |-> 0, lives |-> 3]
        sc2 == SavedAll(scores, "Pac-Man", ResetSaves(g))
        m1 == LoadHighScore(memory, sc2, "Pac-Man")
    IN  GameCall("reset", g2, Display(m1, PacManWrites(g2), 0),
                 ResetSaves(g), PlotRaises(PacManWrites(g2)))

PacManNew ==
    /\ game = NoGame
    /\ PacManReset([score |-> 0])

PacManGameReset ==
    /\ game.name = "Pac-Man"
    /\ PacManReset(game)

PacManHandleInput(key) ==
    /\ game.name = "Pac-Man"
    /\ GameCall("handle_input",
                IF key = "UP" THEN [game EXCEPT !.next_dx = 0, !.next_dy = -1]
                ELSE IF key = "DOWN"
                  THEN [game EXCEPT !.next_dx = 0, !.next_dy = 1]
                ELSE IF key = "LEFT"
                  THEN [game EXCEPT !.next_dx = -1, !.next_dy = 0]
                ELSE IF key = "RIGHT"
                  THEN [game EXCEPT !.next_dx = 1, !.next_dy = 0]
                ELSE game,
                memory, <<>>, FALSE)

\* the player's move with a power pellet left out of the count
PlayerMovedPelletUncounted(g) ==
    LET turn == Open(g.maze, g.player_x + g.next_dx, g.player_y + g.next_dy)
        dx == IF turn THEN g.next_dx ELSE g.player_dx
        dy == IF turn THEN g.next_dy ELSE g.player_dy
        move == Open(g.maze, g.player_x + dx, g.player_y + dy)
        x == IF move THEN g.player_x + dx ELSE g.player_x
        y == IF move THEN g.player_y + dy ELSE g.player_y
        cell == MazeCell(g.maze, x, y)
        ate == cell \in {2, 3}
        power == IF cell = 3 THEN 80 ELSE g.power_mode
    IN  [g EXCEPT
           !.player_dx = dx, !.player_dy = dy, !.player_x = x, !.player_y = y,
           !.maze = IF ate THEN @ \cup {<<x, y>>} ELSE @,
           !.score = @ + (IF cell = 2 THEN 10 ELSE IF cell = 3 THEN 50 ELSE 0),
           !.dots_remaining = IF cell = 2 THEN @ - 1 ELSE @,
           !.power_mode = IF power > 0 THEN power - 1 ELSE power,
           !.ghosts = [i \in DOMAIN @ |->
                         [@[i] EXCEPT !.scared =
                            IF power = 1 THEN FALSE
                            ELSE IF cell = 3 THEN TRUE ELSE @]]]

\* update(): the player's turn and move, and the dot under the player
PlayerMoved(g) ==
    LET turn == Open(g.maze, g.player_x + g.next_dx, g.player_y + g.next_dy)
        dx == IF turn THEN g.next_dx ELSE g.player_dx
        dy == IF turn THEN g.next_dy ELSE g.player_dy
        move == Open(g.maze, g.player_x + dx, g.player_y + dy)
        x == IF move THEN g.player_x + dx ELSE g.player_x
        y == IF move THEN g.player_y + dy ELSE g.player_y
        cell == MazeCell(g.maze, x, y)
        ate == cell \in {2, 3}
        power == IF cell = 3 THEN 80 ELSE g.power_mode
    IN  [g EXCEPT
           !.player_dx = dx, !.player_dy = dy, !.player_x = x, !.player_y = y,
           !.maze = IF ate THEN @ \cup {<<x, y>>} ELSE @,
           !.score = @ + (IF cell = 2 THEN 10 ELSE IF cell = 3 THEN 50 ELSE 0),
           !.dots_remaining = IF ate THEN @ - 1 ELSE @,
           !.power_mode = IF power > 0 THEN power - 1 ELSE power,
           !.ghosts = [i \in DOMAIN @ |->
                         [@[i] EXCEPT !.scared =
                            IF power = 1 THEN FALSE
                            ELSE IF cell = 3 THEN TRUE ELSE @]]]

\* update(): each ghost not eaten moves toward its target
GhostsMoved(g) ==
    LET corners == << <<1, 1>>, <<14, 1>>, <<1, 14>>, <<14, 14>> >>
        Moved(i) ==
            LET gh == g.ghosts[i]
                target ==
                    IF gh.scared
                      THEN <<IF g.player_x > 8 THEN 0 ELSE 15,
                             IF g.player_y > 8 THEN 0 ELSE 15>>
                    ELSE IF i = 1 THEN <<g.player_x, g.player_y>>
                    ELSE IF i = 2 THEN <<g.player_x + g.player_dx * 4,
                                         g.player_y + g.player_dy * 4>>
                    ELSE IF i = 3 THEN corners[((gh.x + gh.y) % 4) + 1]
                    ELSE IF Abs(g.player_x - gh.x) + Abs(g.player_y - gh.y) < 8
                      THEN <<1, 1>>
                    ELSE <<g.player_x, g.player_y>>
            IN  IF gh.eaten THEN gh
                ELSE MoveToward(gh, target[1], target[2], g.maze)
    IN  [g EXCEPT !.ghosts = [i \in DOMAIN @ |-> Moved(i)]]

ResetPos(gh) == [gh EXCEPT !.x = gh.start_x, !.y = gh.start_y]

\* update(): the collisions, ghost by ghost; st.game is the game so far and
\* st.saves the scores handed to save_high_score
RECURSIVE Collided(_, _)
Collided(st, i) ==
    IF i > Len(st.game.ghosts) THEN st
    ELSE LET g == st.game
             gh == g.ghosts[i]
             here == gh.x = g.player_x /\ gh.y = g.player_y
         IN  IF here /\ gh.scared /\ ~gh.eaten
               THEN Collided([st EXCEPT
                                !.game.score = @ + 200,
                                !.game.ghosts[i].eaten = TRUE,
                                !.game.ghosts[i].respawn_timer = 50], i + 1)
             ELSE IF here /\ ~gh.scared /\ ~gh.eaten
               THEN IF g.lives - 1 <= 0
                      THEN Collided([st EXCEPT
                                       !.game.lives = @ - 1,
                                       !.game.game_over = TRUE,
                                       !.saves = Append(@, g.score)], i + 1)
                      ELSE Collided([st EXCEPT
                                       !.game.lives = @ - 1,
                                       !.game.player_x = 9,
                                       !.game.player_y = 13,
                                       !.game.player_dx = 0,
                                       !.game.player_dy = 0,
                                       !.game.ghosts =
                                          [k \in DOMAIN @ |-> ResetPos(@[k])]],
                                    i + 1)
             ELSE Collided(st, i + 1)

\* update(): an eaten ghost counts down and comes back at its start
Respawned(g) ==
    [g EXCEPT !.ghosts =
       [i \in DOMAIN @ |->
          IF ~@[i].eaten THEN @[i]
          ELSE IF @[i].respawn_timer - 1 <= 0
            THEN [ResetPos(@[i]) EXCEPT !.respawn_timer = @ - 1,
                                        !.eaten = FALSE, !.scared = FALSE]
          ELSE [@[i] EXCEPT !.respawn_timer = @ - 1]]]

PacManUpdate ==
    /\ game.name = "Pac-Man"
    /\ LET st == Collided([game |-> GhostsMoved(PlayerMoved(game)),
                           saves |-> <<>>], 1)
           g1 == Respawned(st.game)
           won == g1.dots_remaining = 0
           g2 == IF won THEN [g1 EXCEPT !.game_over = TRUE] ELSE g1
           ss == IF won THEN Append(st.saves, g1.score) ELSE st.saves
       IN  IF game.game_over
             THEN GameCall("update", game, memory, <<>>, FALSE)
             ELSE GameCall("update", g2,
                           Display(memory, PacManWrites(g2), g2.score), ss,
                           PlotRaises(PacManWrites(g2)))

----------------------------------------------------------------------------
(* Inputs of the external calls *)
ByteSamples == {0, 5, 255}

\* the byte injected among the steps of the general programs (SpecInput
\* injects every byte of ByteSamples into the programs that poll INP)
InputSamples == {5}
WordSamples == {0, 1, 255, 256, 4660, 32768, 43981, 65535}
AluOps == {ADD, SUB, AND, OR, INC, DEC, CMP}
AluPairs == {<<5, 3>>, <<3, 5>>, <<0, 0>>, <<0, 1>>, <<1, 255>>, <<255, 1>>,
             <<127, 128>>, <<128, 128>>, <<255, 255>>, <<0, 255>>, <<255, 0>>}
AluPrograms ==
    {<<LDA_IMM, p[1], LDB_IMM, p[2], o, HALT>> : p \in AluPairs, o \in AluOps}

\* bytes that are no Opcode: the gaps of the enumeration, at their borders
UnknownSamples == {15, 21, 28, 31, 34, 128, 254}
UnknownPrograms ==
    {<<LDA_IMM, 1, u, HALT>> : u \in UnknownSamples}
    \cup {<<15, 21, 28, 29, 30>>, <<31, 34, 35, 36, 37>>}
    \cup {<<k, k + 1, k + 2, k + 3, k + 4>> : k \in {38 + 5 * i : i \in 0 .. 42}}
    \cup {<<250, 251, 252, 253, 254>>}

\* targets: a cell of the program, the last cell, the first address past the
\* end, the largest address
Targets == {<<7, 0>>, <<255, 3>>, <<0, 4>>, <<255, 255>>}
JumpPrograms ==
    {<<LDA_IMM, a, CMP, j, t[1], t[2], HALT, INC, HALT>> :
        a \in {0, 1}, j \in {JMP, JZ, JNZ}, t \in Targets}

\* absolute store then load: the stack top, the score cell, the framebuffer,
\* the last cell, the first address past the end, the largest address
Cells == {<<255, 0>>, <<0, 1>>, <<0, 2>>, <<255, 3>>, <<0, 4>>, <<255, 255>>}
AbsPrograms ==
    {<<LDA_IMM, a, STA_ABS, c[1], c[2], INC, LDA_ABS, c[1], c[2], HALT>> :
        a \in {0, 5}, c \in Cells}
    \cup {<<LDA_IMM, 5, LDA_ABS, c[1], c[2], HALT>> : c \in Cells}
\* an indexed load from cell 0x101, which holds 9 while cell 0x01 holds 255
IdxFarProgram ==
    [i \in 1 .. 258 |->
        CASE i = 1 -> LDB_IMM
          [] i = 2 -> 255
          [] i = 3 -> LDC_IMM
          [] i = 4 -> 2
          [] i = 5 -> LDA_IDX
          [] i = 6 -> HALT
          [] i = 258 -> 9
          [] OTHER -> 0]

IdxPrograms ==
    {<<LDA_IMM, 7, LDB_IMM, b, LDC_IMM, c, o, HALT>> :
        b \in {0, 255}, c \in {1, 255}, o \in {STA_IDX, LDA_IDX}}
    \cup {IdxFarProgram}

\* nested calls; a callee that stores over the return address, beside it or
\* elsewhere; unbounded recursion; a RET with no CALL; a CALL past the end
CallPrograms ==
    { <<CALL, 4, 0, HALT, CALL, 8, 0, RET, RET>>,
      <<LDA_IMM, 9, CALL, 6, 0, HALT, STA_ABS, 255, 0, RET>>,
      <<LDA_IMM, 9, CALL, 6, 0, HALT, STA_ABS, 254, 0, RET>>,
      <<LDA_IMM, 9, CALL, 6, 0, HALT, STA_ABS, 0, 2, RET>>,
      <<CALL, 0, 0>>,
      <<RET>>,
      <<CALL, 255, 3>> }

\* an opcode stored into the last cells of memory, then jumped to
EdgeOps == {LDA_IMM, LDB_IMM, LDC_IMM, LDD_IMM, STA_ABS, LDA_ABS, JMP, JZ, JNZ,
            CALL, HALT, ADD}
EdgePrograms ==
    {<<LDA_IMM, o, STA_ABS, c, 3, JMP, c, 3>> : o \in EdgeOps, c \in {254, 255}}

\* a program that runs over the score cells: a jump to 0xFF, where an
\* immediate load has its operand in SCORE_ADDR and the next opcode is in
\* HIGH_SCORE_ADDR
ScoreOperandProgram ==
    [i \in 1 .. HIGH_SCORE_ADDR + 1 |->
        CASE i = 1 -> JMP
          [] i = 2 -> 255
          [] i = SCORE_ADDR -> LDA_IMM
          [] i = SCORE_ADDR + 1 -> 7
          [] i = HIGH_SCORE_ADDR + 1 -> HALT
          [] OTHER -> 0]

OtherPrograms ==
    { <<LDA_IMM, 5, LDB_IMM, 3, ADD, HALT>>,
      <<LDA_IMM, 0, DEC, HALT>>,
      <<LDA_IMM, 255, LDB_IMM, 1, ADD, CMP, HALT>>,
      <<LDA_IMM, 0, LDB_IMM, 0, CMP, JZ, 8, 0, HALT, LDA_IMM, 99, HALT>>,
      <<LDA_IMM, 7, MOV_BA, MOV_CA, MOV_DA, HALT>>,
      <<LDB_IMM, 1, MOV_AB, HALT>>,
      <<LDC_IMM, 2, MOV_AC, HALT>>,
      <<LDD_IMM, 3, MOV_AD, HALT>>,
      <<INP, MOV_BA, INP, ADD, HALT>>,
      <<NOP, NOP, HALT>>,
      <<NOP, HALT, HALT>>,
      <<LDA_IMM, 1, LDB_IMM, 255, ADD, DEC, INC>>,
      <<LDA_IMM, 0, LDB_IMM, 1, SUB, INC, AND>>,
      <<LDA_IMM, 0, LDB_IMM, 1, SUB, MOV_AB, OR>>,
      <<LDA_IMM, INC, STA_ABS, 0, 1, JMP, 0, 1>>,
      ScoreOperandProgram }

Programs == AluPrograms \cup UnknownPrograms \cup JumpPrograms \cup AbsPrograms
            \cup IdxPrograms \cup CallPrograms \cup EdgePrograms
            \cup OtherPrograms

\* a program loaded at 0 runs from the initial PC; one loaded at the last
\* cell is cut at the end of memory
Loads == (Programs \X {0}) \cup ({<<HALT, NOP>>} \X {MemLen - 2, MemLen - 1})
         \cup {<<(<<HALT, INC, DEC>>), MemLen - 1>>}

\* pokes: below and past the memory, the stack top (a value wider than a
\* byte), the first cell of the program
Pokes == {<<-1, RET>>, <<MemLen, RET>>, <<255, 256 + RET>>, <<0, HALT>>}

----------------------------------------------------------------------------
(* The engine after construction *)
Fresh ==
    /\ memory = [a \in {} |-> 0]
    /\ zero_flag = FALSE
    /\ carry_flag = FALSE
    /\ running = TRUE
    /\ last_input = 0
    /\ cycles = 0
    /\ raised = FALSE
    /\ op = "init"
    /\ fetches = 0
    /\ frames = <<>>
    /\ matched = NoFrame
    /\ pokes = 0
    /\ loads = 0
    /\ injects = 0
    /\ stk = [phase |-> "idle", x |-> -1, sp0 |-> -1, result |-> -1]
    /\ arg = NoArg
    /\ injected = <<>>
    /\ inps = 0
    /\ game = NoGame
    /\ calls = 0
    /\ scores = NoScores
    /\ hs = NoSubmission
    /\ run = NoRun

Init ==
    /\ Fresh
    /\ reg = [A |-> 0, B |-> 0, C |-> 0, D |-> 0, PC |-> 0, SP |-> STACK_TOP]

Step ==
    \/ StepStop
    \/ StepNOP
    \/ StepLDA_IMM
    \/ StepSTA_ABS
    \/ StepADD
    \/ StepLDB_IMM
    \/ StepCMP
    \/ StepJMP
    \/ StepJZ
    \/ StepINP
    \/ StepSUB
    \/ StepLDC_IMM
    \/ StepLDD_IMM
    \/ StepINC
    \/ StepDEC
    \/ StepJNZ
    \/ StepLDA_ABS
    \/ StepLDA_IDX
    \/ StepSTA_IDX
    \/ StepCALL
    \/ StepRET
    \/ StepMOV_BA
    \/ StepMOV_AB
    \/ StepMOV_CA
    \/ StepMOV_AC
    \/ StepMOV_DA
    \/ StepMOV_AD
    \/ StepAND
    \/ StepOR
    \/ StepHALT
    \/ StepUnknown

Next ==
    \/ Step
    \/ \E p \in Pokes : Poke(p[1], p[2])
    \/ \E l \in Loads : LoadProgram(l[1], l[2])
    \/ \E byte \in InputSamples : injects < MaxInjects /\ SetPendingInput(byte)

Spec == Init /\ [][Next]_vars

\* the stack helpers alone, from every stack pointer
InitStack ==
    /\ Fresh
    /\ \E sp \in 0 .. 255 :
         reg = [A |-> 0, B |-> 0, C |-> 0, D |-> 0, PC |-> 0, SP |-> sp]

NextStack ==
    \/ \E x \in WordSamples : DoPush(x)
    \/ DoPop

SpecStack == InitStack /\ [][NextStack]_vars

\* ADD and SUB alone, on every pair of register values: the engine after
\* load_program(<<LDA_IMM, a, LDB_IMM, b, JMP, 0, 0>>, 0), three steps and a
\* poke of the opcode into cell 0
InitAlu ==
    \E a \in 0 .. 255, b \in 0 .. 255, o \in {ADD, SUB} :
        /\ memory = LoadedMemory([x \in {} |-> 0],
                                 <<o, a, LDB_IMM, b, JMP, 0, 0>>, 0)
        /\ reg = [A |-> a, B |-> b, C |-> 0, D |-> 0, PC |-> 0, SP |-> STACK_TOP]
        /\ zero_flag = FALSE
        /\ carry_flag = FALSE
        /\ running = TRUE
        /\ last_input = 0
        /\ cycles = 3
        /\ raised = FALSE
        /\ op = "poke"
        /\ fetches = 3
        /\ frames = <<>>
        /\ matched = NoFrame
        /\ pokes = 1
        /\ loads = 1
        /\ injects = 0
        /\ stk = [phase |-> "idle", x |-> -1, sp0 |-> -1, result |-> -1]
        /\ arg = [program |-> <<>>, addr |-> 0, value |-> o]
        /\ injected = <<>>
        /\ inps = 0
        /\ game = NoGame
        /\ calls = 0
        /\ scores = NoScores
        /\ hs = NoSubmission
        /\ run = NoRun

NextAlu ==
    \/ StepADD
    \/ StepSUB

SpecAlu == InitAlu /\ [][NextAlu]_vars

\* the input register alone: programs that poll INP, with more injections
\* than Spec allows, in any order with the steps
InputPrograms ==
    { <<INP, MOV_BA, INP, ADD, HALT>>,
      <<INP, INP, JMP, 0, 0>>,
      <<NOP, INP, INP, INP, HALT>> }

NextInput ==
    \/ StepNOP
    \/ StepINP
    \/ StepMOV_BA
    \/ StepADD
    \/ StepJMP
    \/ StepHALT
    \/ \E program \in InputPrograms : LoadProgram(program, 0)
    \/ \E byte \in ByteSamples :
          injects < MaxInputInjects /\ SetPendingInput(byte)

SpecInput == Init /\ [][NextInput]_vars

\* the games on an engine: a program may be loaded beside the score cells or
\* at either end of the framebuffer, then one game is constructed and reset,
\* updated and handed keys in any order
GameLoads == { <<(<<1, 2, 3, 4>>), SCORE_ADDR - 1>>,
               <<(<<5, 6>>), VRAM_START - 1>>,
               <<(<<7, 8>>), VRAM_START + VRAM_SIZE - 1>> }

\* the calls explored on one game
GameBound == calls < MaxGameCalls

NextGames ==
    \/ GameBound /\ SnakeNew
    \/ GameBound /\ SnakeGameReset
    \/ GameBound /\ SnakeUpdate
    \/ \E key \in Keys : GameBound /\ SnakeHandleInput(key)
    \/ GameBound /\ PongNew
    \/ GameBound /\ PongGameReset
    \/ GameBound /\ PongUpdate
    \/ \E key \in Keys : GameBound /\ PongHandleInput(key)
    \/ GameBound /\ BreakoutNew
    \/ GameBound /\ BreakoutGameReset
    \/ GameBound /\ BreakoutUpdate
    \/ \E key \in Keys : GameBound /\ BreakoutHandleInput(key)
    \/ GameBound /\ RacingNew
    \/ GameBound /\ RacingGameReset
    \/ GameBound /\ RacingUpdate
    \/ \E key \in Keys : GameBound /\ RacingHandleInput(key)
    \/ GameBound /\ PacManNew
    \/ GameBound /\ PacManGameReset
    \/ GameBound /\ PacManUpdate
    \/ \E key \in Keys : GameBound /\ PacManHandleInput(key)
    \/ \E l \in GameLoads : game = NoGame /\ LoadProgram(l[1], l[2])

SpecGames == Init /\ [][NextGames]_vars

\* a play of Pac-Man that eats every dot: the key handed to handle_input
\* before each update
WinKeys ==
    <<"RIGHT", "LEFT", "UP", "UP", "LEFT", "UP", "UP", "UP", "UP", "DOWN",
      "DOWN", "LEFT", "UP", "DOWN", "LEFT", "UP", "UP", "UP", "UP", "RIGHT",
      "UP", "UP", "UP", "UP", "UP", "LEFT", "UP", "UP", "UP", "UP", "UP",
      "UP", "UP", "UP", "RIGHT", "UP", "UP", "UP", "UP", "DOWN", "DOWN",
      "LEFT", "UP", "DOWN", "DOWN", "RIGHT", "UP", "UP", "UP", "UP", "DOWN",
      "RIGHT", "UP", "UP", "RIGHT", "UP", "RIGHT", "UP", "UP", "UP", "UP",
      "LEFT", "UP", "UP", "DOWN", "UP", "LEFT", "UP", "UP", "DOWN", "DOWN",
      "LEFT", "UP", "DOWN", "UP", "UP", "DOWN", "DOWN", "LEFT", "UP", "UP",
      "DOWN", "DOWN", "DOWN", "DOWN", "DOWN", "UP", "UP", "RIGHT", "UP", "UP",
      "UP", "UP", "RIGHT", "UP", "UP", "UP", "UP", "DOWN", "DOWN", "LEFT",
      "UP", "UP", "DOWN", "DOWN", "RIGHT", "UP", "UP", "UP", "UP", "DOWN",
      "DOWN", "DOWN", "DOWN", "RIGHT", "UP", "UP", "UP", "UP", "UP", "LEFT",
      "RIGHT", "DOWN", "DOWN", "DOWN", "LEFT", "UP", "UP", "UP", "UP", "UP",
      "UP", "RIGHT", "UP", "UP", "LEFT", "RIGHT", "UP", "UP", "UP", "UP",
      "DOWN", "DOWN", "LEFT", "UP", "DOWN", "DOWN", "LEFT", "DOWN", "DOWN",
      "DOWN", "DOWN", "LEFT", "UP", "DOWN", "UP", "UP", "UP", "LEFT", "UP",
      "UP", "UP", "UP", "DOWN", "DOWN", "DOWN">>

\* the play of WinKeys on a new game, one handle_input and one update per
\* key, and one update of the finished game
NextPacManPlay ==
    \/ calls = 0 /\ PacManNew
    \/ \E i \in 1 .. Len(WinKeys) :
          calls = 2 * i - 1 /\ PacManHandleInput(WinKeys[i])
    \/ \E i \in 1 .. Len(WinKeys) : calls = 2 * i /\ PacManUpdate
    \/ calls = 2 * Len(WinKeys) + 1 /\ PacManUpdate

SpecPacManPlay == Init /\ [][NextPacManPlay]_vars

\* the high score manager alone
GameNames == {"Snake", "Pong"}
ScoreSamples == {-5, 0, 10, 20, 300}

NextScores == \E name \in GameNames, score \in ScoreSamples :
                  UpdateHighScore(name, score)

SpecScores == Init /\ [][NextScores]_vars

\* the monitor's RUN on a loaded program: a jump to itself, a recursion that
\* never returns, a countdown that halts, nested calls that return, a
\* program that runs off into the zeroed memory, one that jumps to a JMP it
\* stored in the last but one cell (whose operand read raises), an indexed
\* store at the largest indexed address
RunPrograms ==
    { <<JMP, 0, 0>>,
      <<CALL, 0, 0>>,
      <<LDA_IMM, 3, DEC, JNZ, 2, 0, HALT>>,
      <<CALL, 4, 0, HALT, CALL, 8, 0, RET, RET>>,
      <<LDA_IMM, 1, LDB_IMM, 2, ADD, STA_ABS, 0, 2>>,
      <<LDA_IMM, JMP, STA_ABS, 254, 3, JMP, 254, 3>>,
      <<LDA_IMM, 7, LDB_IMM, 255, LDC_IMM, 255, STA_IDX, HALT>> }
RunStarts == {0, 3, MemLen}

\* the body of RUN's loop: one step() while the loop's condition holds
RunLoop ==
    /\ run.active
    /\ RunGuard
    /\ Step

NextRun ==
    \/ \E program \in RunPrograms : LoadProgram(program, 0)
    \/ \E start_addr \in RunStarts : MonitorRun(start_addr)
    \/ RunLoop
    \/ RunExit

SpecRun == Init /\ [][NextRun]_vars

\* the command handler runs on once it has started
SpecRunFair == SpecRun /\ WF_vars(RunLoop) /\ WF_vars(RunExit)

\* the monitor on a loaded program: one that halts, one that runs past the
\* end of memory, one that halts after four increments, one whose stored
\* JMP raises at the end of memory
MonitorPrograms ==
    { <<LDA_IMM, 1, HALT>>,
      <<JMP, 0, 4>>,
      <<INC, INC, INC, INC, HALT>>,
      <<LDA_IMM, JMP, STA_ABS, 254, 3, JMP, 254, 3>> }
StepCounts == {-1, 0, 1, 3}

\* an iteration of STEP's loop on a running engine
StepIteration ==
    /\ run.left > 0
    /\ StepGuard
    /\ Step

NextMonitor ==
    \/ \E program \in MonitorPrograms : ~InCommand /\ LoadProgram(program, 0)
    \/ \E n \in StepCounts : MonitorStep(n)
    \/ StepIteration
    \/ StepSkip
    \/ MonitorReset
    \/ MonitorRun(0)
    \/ RunLoop
    \/ RunExit

SpecMonitor == Init /\ [][NextMonitor]_vars

\* step() called on a stopped engine: a program that halts at once or runs
\* past the end of memory is loaded first; then an opcode (or a byte that
\* is none) poked over its first cell, direct step() calls, and the monitor's
\* RESET and RUN (from the end of memory, where its loop stops at once)
HaltedPrograms == {<<HALT, 0, 4>>, <<JMP, 0, 4>>}
HaltedPokes == {NOP, LDA_IMM, STA_ABS, ADD, JMP, JZ, JNZ, INC, CALL, RET, MOV_BA,
                HALT, 15}

DirectStep ==
    /\ ~InCommand
    /\ Step

NextHalted ==
    \/ \E program \in HaltedPrograms : LoadProgram(program, 0)
    \/ \E o \in HaltedPokes : loads > 0 /\ ~InCommand /\ Poke(0, o)
    \/ loads > 0 /\ DirectStep
    \/ loads > 0 /\ MonitorReset
    \/ loads > 0 /\ MonitorRun(MemLen)
    \/ RunLoop
    \/ RunExit

SpecHalted == Init /\ [][NextHalted]_vars

\* step() called again and again on the engine as constructed: every cell
\* is 0, the NOP opcode, up to the end of memory
NextFresh ==
    \/ DOMAIN memory = {} /\ StepNOP
    \/ DOMAIN memory = {} /\ StepStop

SpecFresh == Init /\ [][NextFresh]_vars

\* the caller keeps calling step()
SpecFreshFair == SpecFresh /\ WF_vars(NextFresh)

----------------------------------------------------------------------------
(* INC and DEC on every value of A *)
IncDecPrograms ==
    {<<LDB_IMM, 1, LDC_IMM, 2, LDA_IMM, a, o, HALT>> :
        a \in 0 .. 255, o \in {INC, DEC}}

NextIncDec ==
    \/ \E p \in IncDecPrograms : LoadProgram(p, 0)
    \/ StepLDB_IMM
    \/ StepLDC_IMM
    \/ StepLDA_IMM
    \/ StepINC
    \/ StepDEC
    \/ StepHALT

SpecIncDec == Init /\ [][NextIncDec]_vars

-----------------------------------------------------------------------------
(* Properties *)

\* the arms of step(), as recorded in op
StepOps == {"STOP", "NOP", "LDA_IMM", "STA_ABS", "ADD", "LDB_IMM", "CMP", "JMP",
            "JZ", "INP", "SUB", "LDC_IMM", "LDD_IMM", "INC", "DEC", "JNZ",
            "LDA_ABS", "LDA_IDX", "STA_IDX", "CALL", "RET", "MOV_BA", "MOV_AB",
            "MOV_CA", "MOV_AC", "MOV_DA", "MOV_AD", "AND", "OR", "HALT",
            "UNKNOWN"}

\* the addresses step() reads to decode the instruction at PC: the opcode
\* and the operand bytes its arm reads
DecodeReads ==
    LET pc == reg.PC
        opcode == At(memory, pc)
    IN  {pc} \cup
        (IF opcode \in {LDA_IMM, LDB_IMM, LDC_IMM, LDD_IMM} THEN {pc + 1}
         ELSE IF \/ opcode \in {STA_ABS, LDA_ABS, JMP, CALL}
                 \/ opcode = JZ /\ zero_flag
                 \/ opcode = JNZ /\ ~zero_flag
           THEN {pc + 1, pc + 2}
         ELSE {})

\* the arm of step() that a byte selects
OpName(byte) ==
    CASE byte = NOP -> "NOP" [] byte = LDA_IMM -> "LDA_IMM"
      [] byte = STA_ABS -> "STA_ABS" [] byte = ADD -> "ADD"
      [] byte = LDB_IMM -> "LDB_IMM" [] byte = CMP -> "CMP"
      [] byte = JMP -> "JMP" [] byte = JZ -> "JZ" [] byte = INP -> "INP"
      [] byte = SUB -> "SUB" [] byte = LDC_IMM -> "LDC_IMM"
      [] byte = LDD_IMM -> "LDD_IMM" [] byte = INC -> "INC"
      [] byte = DEC -> "DEC" [] byte = JNZ -> "JNZ"
      [] byte = LDA_ABS -> "LDA_ABS" [] byte = LDA_IDX -> "LDA_IDX"
      [] byte = STA_IDX -> "STA_IDX" [] byte = CALL -> "CALL"
      [] byte = RET -> "RET" [] byte = MOV_BA -> "MOV_BA"
      [] byte = MOV_AB -> "MOV_AB" [] byte = MOV_CA -> "MOV_CA"
      [] byte = MOV_AC -> "MOV_AC" [] byte = MOV_DA -> "MOV_DA"
      [] byte = MOV_AD -> "MOV_AD" [] byte = AND -> "AND" [] byte = OR -> "OR"
      [] byte = HALT -> "HALT"
      [] OTHER -> "UNKNOWN"

\* the 16-bit little-endian operand of the instruction at PC
Operand16 == At(memory, reg.PC + 1) + 256 * At(memory, reg.PC + 2)

\* C1: step() is total: no call of step() ends in an exception, whatever the
\* memory, PC and registers that load_program, poke, input injection and
\* earlier steps have produced.
C1_StepNeverRaises == ~raised

\* C2: a step executing ADD with A=a, B=b leaves A = (a+b) mod 256,
\* carry_flag = (a+b > 255), zero_flag = (new A = 0), B unchanged, PC + 1.
C2_Add ==
    [][op' = "ADD" =>
         /\ reg'.A = (reg.A + reg.B) % 256
         /\ carry_flag' = (reg.A + reg.B > 255)
         /\ zero_flag' = (reg'.A = 0)
         /\ reg'.B = reg.B
         /\ reg'.PC = reg.PC + 1]_vars

\* 1 + 255 wraps to 0 with carry and zero
C2_Witness ==
    op = "ADD" /\ reg.A = 0 /\ reg.B = 255 /\ carry_flag /\ zero_flag

\* C3: a step executing SUB with A=a, B=b leaves A = (a-b) mod 256,
\* carry_flag = (a-b < 0), zero_flag = (new A = 0), B unchanged, PC + 1.
C3_Sub ==
    [][op' = "SUB" =>
         /\ reg'.A = (reg.A - reg.B) % 256
         /\ carry_flag' = (reg.A - reg.B < 0)
         /\ zero_flag' = (reg'.A = 0)
         /\ reg'.B = reg.B
         /\ reg'.PC = reg.PC + 1]_vars

\* 0 - 1 borrows: A = 255 with carry
C3_Witness ==
    op = "SUB" /\ reg.A = 255 /\ reg.B = 1 /\ carry_flag /\ ~zero_flag

\* C4: _push(x) immediately followed by _pop() returns x and leaves SP at its
\* value before the push, for every 16-bit x and every SP in 0..255.
C4_PushPopRoundTrip ==
    stk.phase = "popped" => stk.result = stk.x /\ reg.SP = stk.sp0

\* pushed at SP = 0, where the pointer wraps to 255 and 254
C4_Witness ==
    stk.phase = "popped" /\ stk.sp0 = 0 /\ stk.x = 43981 /\ Cell(memory, 255) = 171

\* C5: the RET matching a CALL at P, with only balanced CALL/RET pairs in
\* between and the two stack cells of the return address not overwritten,
\* sets PC = P + 3 and SP to its value before the CALL.
C5_CallReturns ==
    (op = "RET" /\ matched # NoFrame /\ matched.ok)
        => reg.PC = matched.ret /\ reg.SP = matched.sp

\* the inner of two nested calls has returned to the byte after its CALL
C5_Witness ==
    op = "RET" /\ matched.ok /\ matched.ret = 7 /\ reg.PC = 7 /\ Len(frames) = 1

\* C6 as stated: a step() call after a step that executed HALT leaves PC,
\* registers, SP, flags, memory, pending input and the cycle counter unchanged.
C6_HaltedStepChangesNothing ==
    [][(op = "HALT" /\ op' \in StepOps) => UNCHANGED cpuVars]_vars

\* C6 amended: step() is not suppressed on a halted engine: while running is
\* false and the byte at PC is the HALT, a step() call leaves PC, registers,
\* SP, flags, memory, pending input and running unchanged and increments the
\* cycle counter by 1.
C6_HaltedStepOnlyCounts ==
    [][(~running /\ reg.PC < MemLen /\ At(memory, reg.PC) = HALT
          /\ op' \in StepOps) =>
         /\ cycles' = cycles + 1
         /\ UNCHANGED <<memory, reg, zero_flag, carry_flag, running,
                        last_input>>]_vars

\* <<NOP, NOP, HALT>>: the third, fourth and fifth steps all execute the HALT
C6_Witness ==
    /\ op = "HALT" /\ ~running /\ reg.PC = 2 /\ cycles = 5
    /\ DOMAIN memory = {2}

\* C7: a step() call with PC >= memory_length sets running = false and leaves
\* PC, A, B, C, D, SP, the flags, memory, the pending input and the cycle
\* counter unchanged.
C7_StopChangesOnlyRunning ==
    [][(reg.PC >= MemLen /\ op' \in StepOps) =>
         /\ running' = FALSE
         /\ UNCHANGED <<memory, reg, zero_flag, carry_flag, last_input,
                        cycles>>]_vars

\* stopped after a jump past the end, the loaded register still in place
C7_Witness ==
    op = "STOP" /\ ~running /\ reg.PC = 65535 /\ reg.A = 1 /\ cycles = 3

\* C8: a step() call with PC < memory_length adds exactly 1 to the cycle
\* counter whatever byte it fetches, one with PC >= memory_length leaves it;
\* so the counter equals the number of calls that found PC in range.
C8_CyclesCountFetches ==
    /\ [][op' \in StepOps =>
            cycles' = cycles + (IF reg.PC < MemLen THEN 1 ELSE 0)]_vars
    /\ [](cycles = fetches)

\* four fetches, the last a NOP in the last cell, were counted; the stop was not
C8_Witness ==
    op = "STOP" /\ cycles = 4 /\ fetches = 4 /\ reg.PC = MemLen

\* C9: a step that fetches a byte that is no defined opcode adds 1 to PC and
\* to the cycle counter and changes nothing else.
C9_UnknownIsNop ==
    [][(op' \in StepOps /\ reg.PC < MemLen /\ At(memory, reg.PC) \notin Defined)
         => /\ reg' = [reg EXCEPT !.PC = reg.PC + 1]
            /\ cycles' = cycles + 1
            /\ UNCHANGED <<memory, zero_flag, carry_flag, running,
                           last_input>>]_vars

\* the largest unknown byte, 0xFE, has been executed with A loaded
C9_Witness ==
    op = "UNKNOWN" /\ reg.A = 1 /\ reg.PC = 3 /\ Cell(memory, 2) = 254

\* C10 as stated: a step executing LDA_ABS whose decoded address is
\* >= memory_length leaves A = 0 and advances PC by 3.
C10_LoadOutOfRangeGivesZero ==
    [][(op' = "LDA_ABS" /\ ~raised' /\ Operand16 >= MemLen)
         => reg'.A = 0 /\ reg'.PC = reg.PC + 3]_vars

\* C10 amended: a step executing LDA_ABS whose decoded address is
\* >= memory_length skips the load: A keeps its value, PC advances by 3.
C10_LoadOutOfRangeKeepsA ==
    [][(op' = "LDA_ABS" /\ ~raised' /\ Operand16 >= MemLen)
         => reg' = [reg EXCEPT !.PC = reg.PC + 3]]_vars

\* <<LDA_IMM, 5, LDA_ABS, 0, 4, HALT>>: address 0x400 is memory_length
C10_Witness ==
    /\ op = "LDA_ABS" /\ reg.PC = 5 /\ reg.A = 5
    /\ Cell(memory, 3) + 256 * Cell(memory, 4) = MemLen

\* a step that transfers control: JMP, CALL, a taken JZ, a taken JNZ
JumpTaken ==
    \/ op' \in {"JMP", "CALL"}
    \/ op' = "JZ" /\ zero_flag
    \/ op' = "JNZ" /\ ~zero_flag

\* C11 as stated: after any step that executes JMP, a taken JZ, a taken JNZ or
\* CALL, PC is an address inside [0, memory_length), whatever the two operand
\* bytes are.
C11_JumpTargetInRange ==
    [][JumpTaken => (reg'.PC >= 0 /\ reg'.PC < MemLen)]_vars

\* C11 amended: after such a step PC is not negative but it may be
\* >= memory_length, the operand is not resolved to an in-range address; the
\* step() call that follows finds PC >= memory_length, sets running = false,
\* does not raise and changes nothing else.
C11_JumpTargetStopsEngine ==
    /\ [][JumpTaken => reg'.PC >= 0]_vars
    /\ [][(op \in {"JMP", "JZ", "JNZ", "CALL"} /\ reg.PC >= MemLen
            /\ op' \in StepOps) =>
             /\ op' = "STOP"
             /\ ~raised'
             /\ ~running'
             /\ UNCHANGED <<memory, reg, zero_flag, carry_flag, last_input,
                            cycles>>]_vars

\* <<LDA_IMM, 0, CMP, JMP, 0, 4, ...>>: the jump to 0x400 = memory_length, then
\* the step that stops
C11_Witness ==
    /\ op = "STOP" /\ ~running /\ reg.PC = MemLen /\ cycles = 3
    /\ Cell(memory, 3) = JMP /\ Cell(memory, 5) = 4

\* C12: immediately after any step executing ADD, SUB, INC, DEC, AND or OR,
\* zero_flag equals (A = 0); a step executing any opcode other than ADD or
\* SUB leaves carry_flag unchanged (INC from 255 and DEC from 0 included).
C12_ZeroFollowsACarryOnlyAddSub ==
    [][/\ op' \in {"ADD", "SUB", "INC", "DEC", "AND", "OR"}
            => zero_flag' = (reg'.A = 0)
       /\ op' \in (StepOps \ {"ADD", "SUB"}) => carry_flag' = carry_flag]_vars

\* <<LDA_IMM, 1, LDB_IMM, 255, ADD, DEC, INC>>: the ADD set carry; DEC from 0
\* and then INC from 255 left it set
C12_Witness ==
    /\ op = "INC" /\ reg.A = 0 /\ zero_flag /\ carry_flag
    /\ reg.B = 255 /\ cycles = 5

\* C13: a step executing JZ sets PC to the little-endian 16-bit operand when
\* zero_flag is true and to PC+3 otherwise; JNZ does the opposite; JMP always
\* sets PC to the operand. None of the three changes A, B, C, D, SP, the
\* flags or memory. (An operand byte past the end of memory reads as 0.)
C13_Jumps ==
    [][/\ op' = "JMP" => reg' = [reg EXCEPT !.PC = Operand16]
       /\ op' = "JZ" =>
            reg' = [reg EXCEPT !.PC = IF zero_flag THEN Operand16 ELSE @ + 3]
       /\ op' = "JNZ" =>
            reg' = [reg EXCEPT !.PC = IF ~zero_flag THEN Operand16 ELSE @ + 3]
       /\ op' \in {"JMP", "JZ", "JNZ"} =>
            UNCHANGED <<memory, zero_flag, carry_flag>>]_vars

\* C14: a step executing STA_ABS at address p computes
\* addr = memory[p+1] | (memory[p+2] << 8); if addr < memory_length it sets
\* memory[addr] = A and changes no other cell; otherwise no cell changes; in
\* both cases PC increases by 3 and registers and flags are unchanged.
C14_StoreAbsolute ==
    [][op' = "STA_ABS" =>
         /\ \A a \in 0 .. MemLen - 1 :
               Cell(memory', a) = IF a = Operand16 THEN reg.A ELSE Cell(memory, a)
         /\ reg' = [reg EXCEPT !.PC = @ + 3]
         /\ UNCHANGED <<zero_flag, carry_flag>>]_vars

\* C15: a step executing INP copies the pending input into A, sets the pending
\* input to 0 and advances PC by 1; so in a run of INP steps with no injection
\* in between, every INP after the first leaves A = 0.
C15_InpConsumes ==
    [][op' = "INP" =>
         /\ reg' = [reg EXCEPT !.A = last_input, !.PC = @ + 1]
         /\ last_input' = 0
         /\ inps >= 1 => reg'.A = 0]_vars

\* <<INP, INP, JMP, 0, 0>> with 255 injected before the first INP: the second
\* and, after the jump back, the third INP read 0
C15_Witness ==
    /\ op = "INP" /\ inps = 3 /\ reg.A = 0 /\ injects = 1 /\ reg.PC = 1
    /\ cycles = 4 /\ Cell(memory, 2) = JMP

\* C16: only the most recently injected byte is held: if x and then y are
\* injected with no INP executing in between, the next INP loads y into A, and
\* no later INP loads x (an INP loads the last byte injected since the INP
\* before it, or 0 when there is none).
C16_LastInjectionWins ==
    [][op' = "INP" =>
         reg'.A = IF injected = <<>> THEN 0 ELSE injected[Len(injected)]]_vars

\* <<INP, MOV_BA, INP, ADD, HALT>>: two bytes were injected before the first
\* INP, the second of them 255, which that INP loaded (now in B); the second
\* INP loaded 0, not the byte injected first
C16_Witness ==
    /\ op = "INP" /\ injects = 2 /\ inps = 2 /\ reg.B = 255 /\ reg.A = 0
    /\ Cell(memory, 1) = MOV_BA

\* the cells to compare between two memories: those not 0 in either, and
\* those of a set of addresses; every other cell is 0 in both
CellsOf(m1, m2, addrs) ==
    DOMAIN m1 \cup DOMAIN m2 \cup (addrs \cap (0 .. MemLen - 1))

\* C17: load_program(program, start) with start >= 0 sets
\* memory[start+i] = program[i] for exactly those i with
\* start+i < memory_length, drops the rest, never raises, and leaves every
\* other memory cell, all registers, PC, SP, the flags and running unchanged.
C17_LoadProgram ==
    [][op' = "load" =>
         LET program == arg'.program
             start == arg'.addr
         IN  /\ start >= 0
             /\ \A a \in CellsOf(memory, memory',
                                   start .. start + Len(program) - 1) :
                   Cell(memory', a) =
                       IF a - start + 1 \in 1 .. Len(program)
                         THEN program[a - start + 1]
                         ELSE Cell(memory, a)
             /\ DOMAIN memory' \subseteq 0 .. MemLen - 1
             /\ ~raised'
             /\ UNCHANGED <<reg, zero_flag, carry_flag, running>>]_vars

\* <<HALT, INC, DEC>> loaded at the last cell after a poke of the stack top:
\* the HALT is in the last cell, the rest was dropped, the poked cell is kept
C17_Witness ==
    /\ op = "load" /\ arg.addr = MemLen - 1 /\ Len(arg.program) = 3
    /\ Cell(memory, MemLen - 1) = HALT /\ Cell(memory, 255) = RET

\* C18: a poke (monitor write_memory) to an address >= memory_length or < 0
\* changes no memory cell and does not raise; a poke to an in-range address
\* changes exactly that one cell, to value & 0xFF, and changes no register or
\* flag.
C18_Poke ==
    [][op' = "poke" =>
         /\ \A a \in CellsOf(memory, memory', {arg'.addr}) :
               Cell(memory', a) = IF a = arg'.addr THEN arg'.value % 256
                                                   ELSE Cell(memory, a)
         /\ DOMAIN memory' \subseteq 0 .. MemLen - 1
         /\ ~raised'
         /\ UNCHANGED <<reg, zero_flag, carry_flag>>]_vars

\* a poke to address -1 after the program had stored CALL into the last
\* cell: the cell is as the program wrote it
C18_Witness ==
    /\ op = "poke" /\ arg.addr = -1 /\ arg.value = RET /\ cycles = 2
    /\ Cell(memory, MemLen - 1) = CALL

C20_ScoreCellsNeverFetched ==
    [][(op' \in StepOps /\ reg.PC < MemLen) =>
         DecodeReads \cap {SCORE_ADDR, HIGH_SCORE_ADDR} = {}]_vars

\* C20 amended: the decoder gives the two cells no special treatment and
\* nothing keeps PC away from them: a step() whose PC is SCORE_ADDR or
\* HIGH_SCORE_ADDR fetches the byte stored there and executes it as its
\* opcode, counting a cycle, and an immediate load just below one of them
\* takes its operand byte from it.
C20_ScoreCellsAreDecoded ==
    /\ [][(op' \in StepOps /\ reg.PC \in {SCORE_ADDR, HIGH_SCORE_ADDR}) =>
             /\ op' = OpName(Cell(memory, reg.PC))
             /\ cycles' = cycles + 1]_vars
    /\ [][(op' = "LDA_IMM" /\ reg.PC + 1 \in {SCORE_ADDR, HIGH_SCORE_ADDR}) =>
             reg'.A = Cell(memory, reg.PC + 1)]_vars

\* <<LDA_IMM, INC, STA_ABS, 0, 1, JMP, 0, 1>>: the INC opcode the program
\* stored in SCORE_ADDR has been executed from there
C20_Witness ==
    /\ op = "INC" /\ reg.PC = HIGH_SCORE_ADDR /\ reg.A = INC + 1
    /\ Cell(memory, SCORE_ADDR) = INC /\ cycles = 4

\* C21: a call on a game (its constructor, reset, update, handle_input) never
\* calls step() and changes the engine only in the framebuffer cells
\* [VRAM_START, VRAM_START + w*h) and the SCORE_ADDR / HIGH_SCORE_ADDR cells:
\* the registers, the flags, the cycle counter and every other cell stay.
GameOps == {"reset", "update", "handle_input"}

C21_GamesOnlyDraw ==
    [][(calls' = calls + 1 /\ op' \in GameOps) =>
          /\ reg' = reg
          /\ zero_flag' = zero_flag
          /\ carry_flag' = carry_flag
          /\ cycles' = cycles
          /\ fetches' = fetches
          /\ ~raised'
          /\ \A a \in CellsOf(memory, memory', {}) :
                (/\ a \notin {SCORE_ADDR, HIGH_SCORE_ADDR}
                 /\ (a < VRAM_START \/ a >= VRAM_START + FB_WIDTH * FB_HEIGHT))
                    => Cell(memory', a) = Cell(memory, a)]_vars

\* Pac-Man has drawn its maze over a program loaded across the end of the
\* framebuffer: the last pixel is a wall, the cell after it is the program's
C21_Witness ==
    /\ game.name = "Pac-Man"
    /\ op = "update"
    /\ calls = 3
    /\ game.score = 10
    /\ loads = 1
    /\ Cell(memory, VRAM_START + VRAM_SIZE - 1) = 4
    /\ Cell(memory, VRAM_START + VRAM_SIZE) = 8
\* the byte values that step() decodes by an arm of their own
DecodedBytes == {b \in 0 .. 255 : OpName(b) # "UNKNOWN"}

\* C22 as stated: the instruction set is exactly 30 defined opcodes: 30 byte
\* values are decoded by an arm of step() of their own, and 30 is the size
\* show_info reports.
C22_ThirtyOpcodes ==
    [][(op' \in StepOps \ {"STOP"}) =>
          /\ InstructionSetSize = 30
          /\ Cardinality(DecodedBytes) = 30
          /\ op' = OpName(At(memory, reg.PC))]_vars

\* C22 amended: the instruction set is exactly 29 defined opcodes: show_info
\* reports 29, and a step that finds PC in range runs the arm of the fetched
\* byte for 29 byte values and the unknown-opcode arm for the other 227.
C22_TwentyNineOpcodes ==
    [][(op' \in StepOps \ {"STOP"}) =>
          /\ InstructionSetSize = 29
          /\ Cardinality(DecodedBytes) = 29
          /\ op' = OpName(At(memory, reg.PC))
          /\ (op' = "UNKNOWN") <=> (At(memory, reg.PC) \notin Defined)]_vars

\* the byte 0x0F, in the gap between JNZ and LDA_ABS, has run as unknown
C22_Witness ==
    /\ op = "UNKNOWN"
    /\ reg.PC = 1
    /\ Cell(memory, 0) = 15
    /\ cycles = 1
\* C23: update_high_score(game, s) replaces the stored high score of the game
\* exactly when s is greater than it (0 when there is none) and returns true
\* exactly then; over any sequence of calls the stored high score of a game
\* never decreases and is the maximum of 0 and all scores submitted for it.
C23_UpdateHighScore ==
    [][op' = "update_high_score" =>
          LET stored == IF hs'.name \in DOMAIN scores
                          THEN scores[hs'.name] ELSE 0
          IN  /\ hs'.returned <=> (hs'.score > stored)
              /\ \A n \in GameNames :
                    LET before == IF n \in DOMAIN scores THEN scores[n] ELSE 0
                        after == IF n \in DOMAIN scores' THEN scores'[n] ELSE 0
                        all == {0} \cup (IF n \in DOMAIN hs'.submitted
                                           THEN hs'.submitted[n] ELSE {})
                    IN  /\ after = IF n = hs'.name /\ hs'.score > stored
                                     THEN hs'.score ELSE before
                        /\ after >= before
                        /\ after \in all
                        /\ \A x \in all : x <= after]_vars

\* Snake's 20 stands after a later 10 and an equal 20 were turned down
C23_Witness ==
    /\ op = "update_high_score"
    /\ calls = 3
    /\ hs.name = "Snake" /\ hs.score = 20 /\ ~hs.returned
    /\ hs.submitted = [n \in {"Snake"} |-> {10, 20}]
    /\ scores = [n \in {"Snake"} |-> 20]
\* C30: RUN sets PC to the start address and running to true, then calls
\* step() at most 1000 times and only while running is true; so RUN
\* terminates for every program, a JMP to its own address included.
C30_RunTerminates ==
    /\ [][op' = "RUN" => (reg'.PC = arg'.addr /\ running' /\ run'.steps = 0)]_vars
    /\ [][(run.active /\ op' \in StepOps) => (running /\ run.steps < 1000)]_vars
    /\ [](run.steps <= 1000)
    /\ (run.active ~> ~run.active)

\* the RUN of JMP 0 has ended with its budget used up and the engine running
C30_Witness ==
    /\ op = "ran"
    /\ run.steps = 1000
    /\ running
    /\ reg.PC = 0
    /\ Cell(memory, 0) = JMP
\* C24: a step executing CALL at address P with SP = s writes (P+3) & 0xFF to
\* memory[s] and ((P+3) >> 8) & 0xFF to memory[(s-1) mod 256], sets
\* SP = (s-2) mod 256 and changes no other memory cell; a step executing RET
\* with SP = s reads the high byte from memory[(s+1) mod 256] and the low byte
\* from memory[(s+2) mod 256], sets PC = (high << 8) | low and
\* SP = (s+2) mod 256.
C24_CallRetStack ==
    [][/\ op' = "CALL" =>
            LET P == reg.PC
                s == reg.SP
            IN  /\ Cell(memory', s) = (P + 3) % 256
                /\ Cell(memory', (s - 1) % 256) = ((P + 3) \div 256) % 256
                /\ reg'.SP = (s - 2) % 256
                /\ \A a \in CellsOf(memory, memory', {}) :
                      a \notin {s, (s - 1) % 256}
                          => Cell(memory', a) = Cell(memory, a)
       /\ op' = "RET" =>
            LET s == reg.SP
                high == Cell(memory, (s + 1) % 256)
                low == Cell(memory, (s + 2) % 256)
            IN  /\ reg'.PC = BitOr(high * 256, low)
                /\ reg'.SP = (s + 2) % 256
                /\ memory' = memory]_vars

\* the 128th CALL of the recursion CALL 0 was made with SP = 1: its return
\* address went to cells 1 and 0 and SP wrapped to 0xFF
C24_Witness ==
    /\ op = "CALL"
    /\ run.steps = 128
    /\ reg.SP = 255
    /\ Cell(memory, 1) = 3
    /\ Cell(memory, 0) = 0
    /\ Cell(memory, 2) = 0
\* C25: a step executing CALL at address P sets PC to the little-endian
\* 16-bit value held in memory[P+1], memory[P+2] as they were before the step
\* began, for every value of SP, those for which the pushed return address
\* lands on P+1 or P+2 included.
C25_CallTargetIsOperand ==
    [][(op' = "CALL" /\ ~raised') => reg'.PC = Operand16]_vars
\* C26: LDA_IDX and STA_IDX use the effective address B + C without wrapping
\* it to 8 bits (with B = C = 0xFF they access 0x1FE, not 0xFE): LDA_IDX sets
\* A = memory[B+C], STA_IDX sets memory[B+C] = A and changes no other cell;
\* both advance PC by 1 and leave B, C, D, SP and the flags unchanged.
C26_IndexedAddress ==
    [][(op' \in {"LDA_IDX", "STA_IDX"}) =>
          LET addr == reg.B + reg.C IN
          /\ op' = "LDA_IDX" => reg'.A = Cell(memory, addr)
          /\ op' = "STA_IDX" =>
                /\ Cell(memory', addr) = reg.A
                /\ \A a \in CellsOf(memory, memory', {}) :
                      a # addr => Cell(memory', a) = Cell(memory, a)
          /\ reg'.PC = reg.PC + 1
          /\ reg'.B = reg.B /\ reg'.C = reg.C /\ reg'.D = reg.D
          /\ reg'.SP = reg.SP
          /\ zero_flag' = zero_flag /\ carry_flag' = carry_flag]_vars

\* an indexed store with B = C = 0xFF has put A into cell 0x1FE and left
\* cell 0xFE alone
C26_Witness ==
    /\ op = "STA_IDX" /\ reg.B = 255 /\ reg.C = 255 /\ reg.A = 7
    /\ Cell(memory, 510) = 7 /\ Cell(memory, 254) = 0

\* C27: a step executing CMP sets zero_flag = (A == B), advances PC by 1 and
\* changes nothing else: A, B, C, D, SP, carry_flag and memory are unchanged.
C27_Compare ==
    [][op' = "CMP" =>
          /\ zero_flag' = (reg.A = reg.B)
          /\ reg' = [reg EXCEPT !.PC = reg.PC + 1]
          /\ carry_flag' = carry_flag
          /\ memory' = memory
          /\ running' = running
          /\ last_input' = last_input]_vars

\* CMP after an ADD that wrapped to 0: A = 0 and B = 1 differ, the zero flag
\* set by ADD is cleared, the carry flag set by ADD is kept
C27_Witness ==
    /\ op = "CMP" /\ reg.A = 0 /\ reg.B = 1 /\ reg.PC = 6
    /\ ~zero_flag /\ carry_flag

\* C28: for every 8-bit value a, INC with A = a leaves A = (a + 1) mod 256
\* and DEC leaves A = (a - 1) mod 256 (DEC of 0 gives 255 with zero_flag
\* false, INC of 255 gives 0 with zero_flag true); both advance PC by 1 and
\* leave B, C, D, SP and memory unchanged.
C28_IncDecWrap ==
    [][(op' \in {"INC", "DEC"}) =>
          /\ op' = "INC" => reg'.A = (reg.A + 1) % 256
          /\ op' = "DEC" => reg'.A = (reg.A - 1) % 256
          /\ (op' = "DEC" /\ reg.A = 0) => (reg'.A = 255 /\ ~zero_flag')
          /\ (op' = "INC" /\ reg.A = 255) => (reg'.A = 0 /\ zero_flag')
          /\ reg' = [reg EXCEPT !.A = reg'.A, !.PC = reg.PC + 1]
          /\ memory' = memory]_vars

\* DEC of 0 has given 255 with the zero flag false
C28_Witness ==
    /\ op = "DEC" /\ reg.A = 255 /\ ~zero_flag
    /\ reg.B = 1 /\ reg.C = 2 /\ reg.PC = 7 /\ Cell(memory, 5) = 0

\* C29: after any sequence of load_program calls with byte values, pokes,
\* injections of byte-valued input and step() calls, every memory cell and
\* each of A, B, C, D holds a value in 0..255, and SP is in 0..255.
C29_ByteRange ==
    /\ \A a \in DOMAIN memory : Cell(memory, a) \in 0 .. 255
    /\ \A r \in {"A", "B", "C", "D", "SP"} : reg[r] \in 0 .. 255

\* a poke of a value wider than a byte has been masked into the stack top
\* and a DEC of 0 has wrapped to 255
C29_Witness ==
    /\ op = "DEC" /\ reg.A = 255
    /\ pokes = 1 /\ Cell(memory, 255) = RET
\* C31: through the monitor's STEP command no instruction executes on a
\* stopped engine: STEP n calls step() at most n times and only while running
\* is true, so when running is false STEP leaves PC, registers, flags, memory
\* and the cycle counter unchanged.
C31_StepOnStopped ==
    [][/\ op' = "STEP" => (run'.left <= IF arg'.value > 0 THEN arg'.value ELSE 0)
       /\ run.left > 0 =>
             /\ run'.left < run.left
             /\ op' \in StepOps => running
             /\ ~running => /\ reg' = reg
                            /\ zero_flag' = zero_flag
                            /\ carry_flag' = carry_flag
                            /\ memory' = memory
                            /\ cycles' = cycles
                            /\ running' = running]_vars

\* STEP 3 on an engine stopped by HALT has skipped an iteration
C31_Witness ==
    /\ op = "skip" /\ ~running /\ run.left = 1
    /\ reg.PC = 2 /\ reg.A = 1 /\ cycles = 2
\* C32: after the monitor's RESET command the CPU is in its initial state:
\* A = B = C = D = 0, PC = 0, SP = 0xFF, both flags false, running true, cycle
\* counter 0 and pending input 0, as in a freshly constructed engine.
C32_ResetInitialState ==
    [][op' = "RESET" =>
          /\ reg' = [A |-> 0, B |-> 0, C |-> 0, D |-> 0, PC |-> 0, SP |-> STACK_TOP]
          /\ ~zero_flag' /\ ~carry_flag'
          /\ running'
          /\ cycles' = 0
          /\ last_input' = 0]_vars
\* C33: the stack and indexed stores cannot reach the display: a step
\* executing any opcode other than STA_ABS never changes a memory cell at
\* address >= VRAM_START (CALL writes only addresses 0..255 and STA_IDX only
\* addresses 0..510), and CALL never changes SCORE_ADDR or HIGH_SCORE_ADDR.
C33_DisplayOutOfReach ==
    [][/\ (op' \in StepOps \ {"STA_ABS"}) =>
            \A a \in CellsOf(memory, memory', {}) :
                a >= VRAM_START => Cell(memory', a) = Cell(memory, a)
       /\ op' = "STA_IDX" =>
            \A a \in CellsOf(memory, memory', {}) :
                a > 510 => Cell(memory', a) = Cell(memory, a)
       /\ op' = "CALL" =>
            \A a \in CellsOf(memory, memory', {SCORE_ADDR, HIGH_SCORE_ADDR}) :
                a > 255 => Cell(memory', a) = Cell(memory, a)]_vars

\* an indexed store has written the largest indexed address, 0x1FE, two
\* cells below the display
C33_Witness ==
    /\ run.active /\ op = "STA_IDX" /\ reg.B + reg.C = VRAM_START - 2
    /\ Cell(memory, VRAM_START - 2) = 7 /\ VRAM_START \notin DOMAIN memory
\* C34: from a freshly constructed engine with no program loaded (all memory
\* 0, i.e. NOP), repeated step() calls eventually set running = false; at that
\* point PC equals memory_length, the cycle counter equals memory_length, and
\* registers, flags and memory are still all zero with SP = 0xFF.
C34_FreshRunsOffTheEnd ==
    /\ <>(~running)
    /\ [](~running =>
            /\ reg = [A |-> 0, B |-> 0, C |-> 0, D |-> 0, PC |-> MemLen,
                      SP |-> STACK_TOP]
            /\ cycles = MemLen
            /\ ~zero_flag /\ ~carry_flag
            /\ DOMAIN memory = {})

\* the step after the last NOP has stopped the engine
C34_Witness ==
    /\ ~running /\ op = "STOP" /\ reg.PC = MemLen /\ cycles = MemLen
    /\ fetches = MemLen /\ loads = 0
\* C35: step() never changes running from false to true: once running is
\* false it stays false under any sequence of step() calls; only the
\* monitor's RESET and RUN commands set it back to true.
C35_StepNeverResumes ==
    /\ [][(~running /\ op' \in StepOps) => ~running']_vars
    /\ [][(~running /\ running') => op' \in {"RESET", "RUN"}]_vars

\* step() has executed a JMP poked over the HALT that stopped the engine,
\* and the engine is still stopped
C35_Witness ==
    /\ ~running /\ op = "JMP" /\ pokes = 1 /\ reg.PC = MemLen /\ cycles = 2
    /\ run.runs = 0 /\ run.cmds = 0
\* C36: in SnakeGame, for any interleaving of handle_input and update calls,
\* the direction applied by an update is never the exact opposite of the
\* direction applied by the previous update, even when several keys are
\* handled between two updates.
C36_NoReversal ==
    [][(/\ op' = "update"
        /\ game.name = "Snake"
        /\ ~game.game_over
        /\ game.applied # <<0, 0>>)
          => game.direction # <<-game.applied[1], -game.applied[2]>>]_vars
\* C37: in SnakeGame, after reset and after every update and handle_input
\* call, score == points_per_food * (len(snake) - 1): the snake grows by
\* exactly one cell and the score by exactly 10 when an update moves the head
\* onto the food, and neither changes otherwise.
C37_ScoreFollowsLength ==
    /\ [](game.name = "Snake" =>
            game.score = GameConfig.points_per_food * (Len(game.snake) - 1))
    /\ [][(game.name = "Snake" /\ op' \in {"update", "handle_input"}) =>
            LET new == <<game.snake[1][1] + game.direction[1],
                         game.snake[1][2] + game.direction[2]>>
                eats == /\ op' = "update" /\ ~game.game_over
                        /\ new = game.food /\ OnScreen(new[1], new[2])
                        /\ ~InSnake(new, game.snake)
            IN  IF eats
                  THEN /\ Len(game'.snake) = Len(game.snake) + 1
                       /\ game'.score = game.score + 10
                       /\ game'.snake[1] = game.food
                  ELSE /\ Len(game'.snake) = Len(game.snake)
                       /\ game'.score = game.score]_vars

\* two updates have each moved the head onto the food
C37_Witness ==
    /\ game.name = "Snake" /\ op = "update"
    /\ game.score = 20 /\ Len(game.snake) = 3 /\ game.snake[1] = <<10, 8>>
\* C38: in PacManGame, no ghost and not the player ever occupies a maze wall
\* cell (value 1): this holds in the state after reset and after every
\* update.
C38_NobodyInWall ==
    game.name = "Pac-Man" =>
        /\ MazeCell(game.maze, game.player_x, game.player_y) # 1
        /\ \A i \in 1 .. Len(game.ghosts) :
              MazeCell(game.maze, game.ghosts[i].x, game.ghosts[i].y) # 1

\* C39: in PacManGame, after reset and after every update, dots_remaining
\* equals the number of maze cells holding a dot (2) or a power pellet (3);
\* it never increases between resets; and an update that leaves it at 0
\* sets game_over.
C39_DotsRemaining ==
    /\ [](game.name = "Pac-Man" =>
            game.dots_remaining = CountDots(game.maze))
    /\ [][(game.name = "Pac-Man" /\ op' \in {"update", "handle_input"}) =>
            game'.dots_remaining <= game.dots_remaining]_vars
    /\ [][(game.name = "Pac-Man" /\ op' = "update"
           /\ game'.dots_remaining = 0) => game'.game_over]_vars

\* the update that ate the last dot of the maze: none is left, the game is
\* over with all three lives
C39_Witness ==
    /\ game.name = "Pac-Man" /\ op = "update"
    /\ calls = 2 * Len(WinKeys) + 1
    /\ game.dots_remaining = 0 /\ CountDots(game.maze) = 0
    /\ game.game_over /\ game.lives = 3 /\ game.score = 1150
====
